---- MODULE Spec2Model ----
(***************************************************************************)
(* gitstuff: repository-tree construction, group lookup, group filtering,  *)
(* local path resolution and multi-provider aggregation.                   *)
(*                                                                         *)
(* Strings are sequences of tokens.  A token is one byte ("a", "b", "/")   *)
(* or one of the provider tags "gitlab" / "github" taken as an indivisible *)
(* run of bytes.  Go's strings.Split / strings.Join / strings.HasPrefix /  *)
(* strings.HasSuffix and the byte-wise string order are computed on these  *)
(* sequences.                                                              *)
(***************************************************************************)
EXTENDS Integers, Sequences, FiniteSets, TLC

VARIABLES
    \* ---- tree building and group lookup (gitlab/github client, list cmd)
    builder,      \* which client's BuildRepositoryTree runs: "gitlab" | "github"
    repos,        \* the list returned by ListAllRepositories (sorted by FullPath)
    k,            \* number of repositories the builder loop has processed
    tree,         \* the RepositoryTree under construction
    groupFilter,  \* argument of findGroupInTree, NoFilter before the call
    targetGroup,  \* result of findGroupInTree
    \* ---- gitlab client: ListRepositoriesInGroup
    glGroupPath,  \* the groupPath argument ("" lists everything)
    glPc,         \* "getGroup" | "list" | "done" | "error"
    glPage,       \* opts.Page of the next request
    glProjects,   \* the projects of the page received last
    glServed,     \* number of projects the API has served so far
    glAllRepos,   \* allRepos, in arrival order
    glResult,     \* the returned list, Nil before the return and on error
    \* ---- local filesystem and path resolver
    fs,           \* the paths that exist on disk (os.Stat answers without error)
    prCall,       \* "none" | "resolve" | "clonePath": the resolver function called
    prRepo,       \* its repo argument
    prResult,     \* the path it returned
    \* ---- clone and list commands, MultiClientManager
    cmMode,       \* "cloneAll" | "cloneGroup" | "cloneSingle" | "list" | "mgrListAll" | "mgrListGroup"
    cmClients,    \* the provider clients in configuration order, each with its answer
    cmArg,        \* the repository path / group path argument, "" when there is none
    cmUpdate,     \* the --update flag
    cmSsh,        \* --ssh was passed
    cmHttps,      \* --https was passed
    cmPc,         \* "collect" | "process" | "done"
    cmCi,         \* index of the client the collecting loop is at
    cmAllRepos,   \* allRepos
    cmFound,      \* foundRepo of cloneSingleRepository
    cmRi,         \* number of repositories the processing loop has handled
    cmSuccessful, \* successful
    cmFailed,     \* failed
    cmLog,        \* provider queries, printed provider errors and git calls, in order
    cmRet,        \* "running", "nil" or the error returned
    \* ---- findRepositoryByPath as a function of its arguments
    fdClient,     \* the client argument: its provider type and its listing
    fdPath,       \* the repoPath argument
    fdPc,         \* "call" | "returned"
    fdRepo,       \* the repository returned, Nil for nil
    fdErr,        \* "nil" or the error returned
    \* ---- the GitLab tree builder applied to whole lists
    twRepos,      \* a repository list, as ListAllRepositories returns it
    twPermuted,   \* the same repositories in another order
    twPc,         \* "start" | "built" | "flat" | "rebuilt"
    twTree,       \* the tree built from twRepos
    twOther,      \* the tree built from twPermuted
    twFlat,       \* the repositories of twTree in the order a walk visits them
    twRebuilt,    \* the tree built from twFlat
    \* ---- package config: Load and AddProvider over ~/.gitstuff.yaml
    cfFile,       \* the config file: absent, not parseable, or its YAML keys
    cfCall,       \* the last call: "idle" | "load" | "add"
    cfArgs,       \* the arguments of the last AddProvider call
    cfErr,        \* "nil" or the error the last call returned
    cfConfig,     \* the *Config the last Load returned, Nil for nil
    cfCalls,      \* number of calls made
    cfPure,       \* the file was absent at first and no AddProvider call failed since
    \* ---- the page loop of the four listing functions
    pgKind,       \* "gitlabAll" | "gitlabGroup" | "githubAll" | "githubOrg"
    pgPc,         \* "getGroup" | "call" | "gotPage" | "done" | "error"
    pgPage,       \* opts.Page, 0 while unset
    pgRequested,  \* the page number the last request carried
    pgResp,       \* the last response: its entries and resp.NextPage; Nil before the first
    pgFetched,    \* the entries of every page received so far, in arrival order
    pgAllRepos,   \* allRepos
    pgResult,     \* the returned list, Nil before the return and on error
    \* ---- runClone: from the command line to the clone function
    dsAll,        \* the --all flag
    dsArgs,       \* the positional arguments
    dsPc,         \* "start" | "ready" | "returned"
    dsCalls,      \* the clone functions called, each with its argument
    dsErr,        \* "nil" or the error runClone returned before dispatching
    \* ---- runList, the query loop of the list display and the tree display
    ltFlag,       \* the --group flag value, "" when not given
    ltShowTree,   \* the --tree flag
    ltProviders,  \* cfg.Providers in order: each provider's Group and its client
    ltPc,         \* "start" | "list" | "tree" | "returned"
    ltTarget,     \* targetGroup of runList
    ltCi,         \* index of the client the display loop is at
    ltOut,        \* the queries sent and the lines printed, in order
    ltRet         \* "running", "nil" or the error returned

treeVars == <<builder, repos, k, tree, groupFilter, targetGroup>>

glVars == <<glGroupPath, glPc, glPage, glProjects, glServed, glAllRepos, glResult>>

prVars == <<prCall, prRepo, prResult>>

cmVars == <<cmMode, cmClients, cmArg, cmUpdate, cmSsh, cmHttps, cmPc, cmCi, cmAllRepos, cmFound,
            cmRi, cmSuccessful, cmFailed, cmLog, cmRet>>

fdVars == <<fdClient, fdPath, fdPc, fdRepo, fdErr>>

twVars == <<twRepos, twPermuted, twPc, twTree, twOther, twFlat, twRebuilt>>

cfVars == <<cfFile, cfCall, cfArgs, cfErr, cfConfig, cfCalls, cfPure>>

pgVars == <<pgKind, pgPc, pgPage, pgRequested, pgResp, pgFetched, pgAllRepos, pgResult>>

dsVars == <<dsAll, dsArgs, dsPc, dsCalls, dsErr>>

ltVars == <<ltFlag, ltShowTree, ltProviders, ltPc, ltTarget, ltCi, ltOut, ltRet>>

vars == <<treeVars, glVars, fs, prVars, cmVars, fdVars, twVars, cfVars, pgVars, dsVars, ltVars>>

(***************************************************************************)
(* Bounds                                                                  *)
(***************************************************************************)
MaxSegments  == 3   \* most '/'-separated segments of a FullPath given to a tree builder
MaxTreeRepos == 2   \* longest repository list given to a tree builder
MaxProjSegs  == 2   \* most segments of a PathWithNamespace the GitLab API returns
MaxGroupSegs == 1   \* most segments of a groupPath given to ListRepositoriesInGroup
MaxProjects  == 3   \* most projects the API serves for one listing, over all pages
MaxPages     == 2   \* most pages the API serves for one listing
MaxLocalSegs == 2   \* most segments of a FullPath given to the path resolver
MaxFsEntries == 2   \* most entries created on disk before the resolver runs
MaxClients   == 2   \* most configured provider clients
MaxOnDisk    == 1   \* most entries on disk before a command runs
MaxFindSegs  == 2   \* most segments of a FullPath or query given to findRepositoryByPath
MaxFindRepos == 2   \* longest listing given to findRepositoryByPath
MaxProviders == 2   \* most providers in a config file before the calls
MaxCalls     == 2   \* most calls of Load and AddProvider in a row
MaxPageNo    == 2   \* largest NextPage value a response carries
MaxEntries   == 2   \* most entries the API serves for one listing, over all pages
MaxArgs      == 2   \* most positional arguments on the clone command line
MaxListed    == 2   \* most configured providers when the list command runs

(***************************************************************************)
(* Strings                                                                 *)
(***************************************************************************)
Slash == "/"

\* byte order of the tokens: '/' = 0x2F < 'a' < 'b' < "github" < "gitlab"
CharRank(c) ==
    CASE c = "/"      -> 47
      [] c = "a"      -> 97
      [] c = "b"      -> 98
      [] c = "github" -> 103
      [] c = "gitlab" -> 104

RECURSIVE StrLess(_, _)
\* Go's s < t on strings: lexicographic on bytes, a proper prefix is smaller
StrLess(s, t) ==
    IF t = <<>> THEN FALSE
    ELSE IF s = <<>> THEN TRUE
    ELSE IF Head(s) = Head(t) THEN StrLess(Tail(s), Tail(t))
    ELSE CharRank(Head(s)) < CharRank(Head(t))

\* all strings over alphabet cs of length lo..hi
StringsOver(cs, lo, hi) == UNION { [1..n -> cs] : n \in lo..hi }

HasSlash(s) == \E i \in 1..Len(s) : s[i] = Slash

FirstSlash(s) == CHOOSE i \in 1..Len(s) : s[i] = Slash /\ \A j \in 1..(i-1) : s[j] # Slash

RECURSIVE Split(_)
\* strings.Split(s, "/"): n separators give n+1 parts; Split("") = [""]
Split(s) ==
    IF ~HasSlash(s) THEN <<s>>
    ELSE LET i == FirstSlash(s)
         IN  <<SubSeq(s, 1, i-1)>> \o Split(SubSeq(s, i+1, Len(s)))

RECURSIVE Join(_)
\* strings.Join(parts, "/")
Join(parts) ==
    IF Len(parts) = 0 THEN <<>>
    ELSE IF Len(parts) = 1 THEN parts[1]
    ELSE parts[1] \o <<Slash>> \o Join(Tail(parts))

\* strings.HasPrefix(s, p)
HasPrefix(s, p) == Len(s) >= Len(p) /\ SubSeq(s, 1, Len(p)) = p

\* strings.HasSuffix(s, p)
HasSuffix(s, p) == Len(s) >= Len(p) /\ SubSeq(s, Len(s) - Len(p) + 1, Len(s)) = p

Range(s) == { s[i] : i \in 1..Len(s) }

Count(s, x) == Cardinality({ i \in 1..Len(s) : s[i] = x })

\* the order sort.Slice(allRepos, FullPath <) leaves the list in
IsSortedByFullPath(s) ==
    \A i \in 1..(Len(s)-1) : ~StrLess(s[i+1].FullPath, s[i].FullPath)

(***************************************************************************)
(* scm model: Repository, Group, GroupNode, RepositoryTree                 *)
(***************************************************************************)
Repository(fullPath, provider) == [FullPath |-> fullPath, Provider |-> provider]

Nil == [isNil |-> TRUE]

EmptyMap == [x \in {} |-> Nil]

MapPut(m, key, v) == [x \in (DOMAIN m) \cup {key} |-> IF x = key THEN v ELSE m[x]]

EmptyTree == [Groups |-> EmptyMap, Repositories |-> <<>>]

\* variant: Group.FullPath set to the segment alone instead of the joined prefix
NewGroupNode_SegmentOnly(parts, j) ==
    [Group        |-> [ID       |-> parts[j],
                       Name     |-> parts[j],
                       FullPath |-> parts[j],
                       Provider |-> "gitlab"],
     SubGroups    |-> EmptyMap,
     Repositories |-> <<>>]

\* the GroupNode literal of BuildRepositoryTree: parts[:j] in 1-based indexing
NewGroupNode(parts, j) ==
    [Group        |-> [ID       |-> parts[j],
                       Name     |-> parts[j],
                       FullPath |-> Join(SubSeq(parts, 1, j)),
                       Provider |-> "gitlab"],
     SubGroups    |-> EmptyMap,
     Repositories |-> <<>>]

RECURSIVE WalkAndAppend_Overwrite(_, _, _, _)
\* variant: every visited segment gets a fresh GroupNode, existing or not
WalkAndAppend_Overwrite(current, parts, j, repo) ==
    LET part == parts[j]
        node == [Group        |-> [ID       |-> part,
                                   Name     |-> part,
                                   FullPath |-> Join(SubSeq(parts, 1, j)),
                                   Provider |-> "gitlab"],
                 SubGroups    |-> EmptyMap,
                 Repositories |-> <<>>]
        next == IF j = Len(parts) - 1
                THEN [node EXCEPT !.Repositories = Append(@, repo)]
                ELSE [node EXCEPT !.SubGroups =
                         WalkAndAppend_Overwrite(@, parts, j+1, repo)]
    IN  MapPut(current, part, next)

RECURSIVE WalkAndAppend(_, _, _, _)
\* the inner loop over parts[:len(parts)-1] from segment j on, followed by
\* the append to currentNode.Repositories; returns the updated map `current`
WalkAndAppend(current, parts, j, repo) ==
    LET part == parts[j]
        node == IF part \in DOMAIN current THEN current[part]
                ELSE NewGroupNode(parts, j)
        next == IF j = Len(parts) - 1
                THEN [node EXCEPT !.Repositories = Append(@, repo)]
                ELSE [node EXCEPT !.SubGroups = WalkAndAppend(@, parts, j+1, repo)]
    IN  MapPut(current, part, next)

\* one iteration of the loop `for _, repo := range repos` of the GitLab builder
GitLabAddRepo(t, repo) ==
    LET parts == Split(repo.FullPath)
    IN  IF Len(parts) = 1
        THEN [t EXCEPT !.Repositories = Append(@, repo)]
        ELSE [t EXCEPT !.Groups = WalkAndAppend(@, parts, 1, repo)]

\* variant: the GitHub builder nests through every interior segment
GitHubAddRepo_Nested(t, repo) ==
    LET parts == Split(repo.FullPath)
    IN  IF Len(parts) = 1
        THEN [t EXCEPT !.Repositories = Append(@, repo)]
        ELSE [t EXCEPT !.Groups = WalkAndAppend(@, parts, 1, repo)]

\* one iteration of the loop of github.buildTreeFromRepos
GitHubAddRepo(t, repo) ==
    LET parts   == Split(repo.FullPath)
        orgName == parts[1]
        node    == IF orgName \in DOMAIN t.Groups THEN t.Groups[orgName]
                   ELSE [Group        |-> [ID       |-> orgName,
                                           Name     |-> orgName,
                                           FullPath |-> orgName,
                                           Provider |-> "github"],
                         SubGroups    |-> EmptyMap,
                         Repositories |-> <<>>]
    IN  IF Len(parts) = 1
        THEN [t EXCEPT !.Repositories = Append(@, repo)]
        ELSE [t EXCEPT !.Groups =
                 MapPut(@, orgName, [node EXCEPT !.Repositories = Append(@, repo)])]

RECURSIVE FindWalk_Partial(_, _, _, _)
\* variant: an absent segment ends the walk with the node reached so far
FindWalk_Partial(current, currentNode, parts, j) ==
    IF j > Len(parts) THEN currentNode
    ELSE IF parts[j] \in DOMAIN current
         THEN FindWalk_Partial(current[parts[j]].SubGroups, current[parts[j]], parts, j+1)
         ELSE currentNode

RECURSIVE FindWalk(_, _, _, _)
\* the loop `for _, part := range parts` of findGroupInTree from part j on
FindWalk(current, currentNode, parts, j) ==
    IF j > Len(parts) THEN currentNode
    ELSE IF parts[j] \in DOMAIN current
         THEN FindWalk(current[parts[j]].SubGroups, current[parts[j]], parts, j+1)
         ELSE Nil

findGroupInTree(t, groupPath) == FindWalk(t.Groups, Nil, Split(groupPath), 1)

(***************************************************************************)
(* Variables of the components a specification leaves alone                *)
(***************************************************************************)
TreeIdle ==
    /\ builder = "none"
    /\ repos = <<>>
    /\ k = 0
    /\ tree = EmptyTree
    /\ groupFilter = <<"?">>
    /\ targetGroup = Nil

GlIdle ==
    /\ glGroupPath = <<>>
    /\ glPc = "idle"
    /\ glPage = 0
    /\ glProjects = <<>>
    /\ glServed = 0
    /\ glAllRepos = <<>>
    /\ glResult = Nil

PrIdle ==
    /\ prCall = "none"
    /\ prRepo = Nil
    /\ prResult = Nil

FsIdle == fs = {}

CmIdle ==
    /\ cmMode = "none"
    /\ cmClients = <<>>
    /\ cmArg = <<>>
    /\ cmUpdate = FALSE
    /\ cmSsh = FALSE
    /\ cmHttps = FALSE
    /\ cmPc = "idle"
    /\ cmCi = 0
    /\ cmAllRepos = <<>>
    /\ cmFound = Nil
    /\ cmRi = 0
    /\ cmSuccessful = 0
    /\ cmFailed = 0
    /\ cmLog = <<>>
    /\ cmRet = "running"

FdIdle ==
    /\ fdClient = Nil
    /\ fdPath = <<>>
    /\ fdPc = "idle"
    /\ fdRepo = Nil
    /\ fdErr = "nil"

TwIdle ==
    /\ twRepos = <<>>
    /\ twPermuted = <<>>
    /\ twPc = "idle"
    /\ twTree = Nil
    /\ twOther = Nil
    /\ twFlat = <<>>
    /\ twRebuilt = Nil

CfIdle ==
    /\ cfFile = Nil
    /\ cfCall = "idle"
    /\ cfArgs = Nil
    /\ cfErr = "nil"
    /\ cfConfig = Nil
    /\ cfCalls = 0
    /\ cfPure = FALSE

PgIdle ==
    /\ pgKind = "none" /\ pgPc = "idle"
    /\ pgPage = 0 /\ pgRequested = 0
    /\ pgResp = Nil
    /\ pgFetched = <<>> /\ pgAllRepos = <<>>
    /\ pgResult = Nil

DsIdle ==
    /\ dsAll = FALSE /\ dsArgs = <<>>
    /\ dsPc = "idle"
    /\ dsCalls = <<>>
    /\ dsErr = "nil"

LtIdle ==
    /\ ltFlag = <<>> /\ ltShowTree = FALSE
    /\ ltProviders = <<>>
    /\ ltPc = "idle"
    /\ ltTarget = <<>>
    /\ ltCi = 0
    /\ ltOut = <<>>
    /\ ltRet = "nil"

nonTreeVars == <<glVars, fs, prVars, cmVars, fdVars, twVars, cfVars, pgVars, dsVars, ltVars>>

nonGlVars == <<treeVars, fs, prVars, cmVars, fdVars, twVars, cfVars, pgVars, dsVars, ltVars>>

nonPrVars == <<treeVars, glVars, cmVars, fdVars, twVars, cfVars, pgVars, dsVars, ltVars>>

nonCmVars == <<treeVars, glVars, prVars, fdVars, twVars, cfVars, pgVars, dsVars, ltVars>>

nonFdVars == <<treeVars, glVars, fs, prVars, cmVars, twVars, cfVars, pgVars, dsVars, ltVars>>

nonTwVars == <<treeVars, glVars, fs, prVars, cmVars, fdVars, cfVars, pgVars, dsVars, ltVars>>

nonCfVars == <<treeVars, glVars, fs, prVars, cmVars, fdVars, twVars, pgVars, dsVars, ltVars>>

nonPgVars == <<treeVars, glVars, fs, prVars, cmVars, fdVars, twVars, cfVars, dsVars, ltVars>>

nonDsVars == <<treeVars, glVars, fs, prVars, cmVars, fdVars, twVars, cfVars, pgVars, ltVars>>

nonLtVars == <<treeVars, glVars, fs, prVars, cmVars, fdVars, twVars, cfVars, pgVars, dsVars>>

(***************************************************************************)
(* Tree specification: a client builds its tree, then the list command     *)
(* looks a group path up in it.                                            *)
(***************************************************************************)
\* the segments paths are made of; the empty one gives "a//a", "/a", "a/"
TreeSegments == {<<>>, <<"a">>}

\* the '/'-joins of lo..hi segments
PathsOf(segments, lo, hi) == { Join(parts) : parts \in StringsOver(segments, lo, hi) }

\* FullPath values; GitLab and GitHub return no project with an empty path
TreePaths == PathsOf(TreeSegments, 1, MaxSegments) \ {<<>>}

\* group paths asked for, the empty one included
QueryPaths == PathsOf(TreeSegments, 1, MaxSegments - 1)

NoFilter == <<"?">>

TreeInit ==
    /\ builder \in {"gitlab", "github"}
    /\ \E n \in 0..MaxTreeRepos :
          repos \in [1..n -> { Repository(p, builder) : p \in TreePaths }]
    /\ IsSortedByFullPath(repos)
    /\ k = 0
    /\ tree = EmptyTree
    /\ groupFilter = NoFilter
    /\ targetGroup = Nil
    /\ GlIdle
    /\ LtIdle
    /\ DsIdle
    /\ PgIdle
    /\ CfIdle
    /\ TwIdle
    /\ FdIdle
    /\ PrIdle
    /\ FsIdle
    /\ CmIdle

GitLabBuildStep ==
    /\ builder = "gitlab"
    /\ k < Len(repos)
    /\ tree' = GitLabAddRepo(tree, repos[k+1])
    /\ k' = k + 1
    /\ UNCHANGED <<builder, repos, groupFilter, targetGroup, nonTreeVars>>

GitHubBuildStep ==
    /\ builder = "github"
    /\ k < Len(repos)
    /\ tree' = GitHubAddRepo(tree, repos[k+1])
    /\ k' = k + 1
    /\ UNCHANGED <<builder, repos, groupFilter, targetGroup, nonTreeVars>>

FindGroup ==
    /\ k = Len(repos)
    /\ groupFilter = NoFilter
    /\ \E p \in QueryPaths :
          /\ groupFilter' = p
          /\ targetGroup' = findGroupInTree(tree, p)
    /\ UNCHANGED <<builder, repos, k, tree, nonTreeVars>>

TreeNext == GitLabBuildStep \/ GitHubBuildStep \/ FindGroup

SpecTree == TreeInit /\ [][TreeNext]_vars

(***************************************************************************)
(* Reading a tree                                                          *)
(***************************************************************************)
RECURSIVE NodePaths(_)
\* the key paths (sequences of map keys from the root) of all GroupNodes
NodePaths(groups) ==
    UNION { {<<g>>} \cup { <<g>> \o p : p \in NodePaths(groups[g].SubGroups) }
            : g \in DOMAIN groups }

RECURSIVE NodeAt(_, _)
NodeAt(groups, kp) ==
    IF Len(kp) = 1 THEN groups[kp[1]]
    ELSE NodeAt(groups[kp[1]].SubGroups, Tail(kp))

RECURSIVE GroupsCount(_, _)
\* occurrences of repository r in the Repositories lists of all GroupNodes
GroupsCount(groups, r) ==
    IF DOMAIN groups = {} THEN 0
    ELSE LET g    == CHOOSE x \in DOMAIN groups : TRUE
             rest == [x \in (DOMAIN groups) \ {g} |-> groups[x]]
         IN  Count(groups[g].Repositories, r)
               + GroupsCount(groups[g].SubGroups, r)
               + GroupsCount(rest, r)

TreeRepoSet(t) ==
    Range(t.Repositories)
      \cup UNION { Range(NodeAt(t.Groups, kp).Repositories) : kp \in NodePaths(t.Groups) }

NodesHolding(t, r) ==
    { kp \in NodePaths(t.Groups) : r \in Range(NodeAt(t.Groups, kp).Repositories) }

IsPrefixSeq(s, t) == Len(s) <= Len(t) /\ SubSeq(t, 1, Len(s)) = s

Processed == SubSeq(repos, 1, k)

\* the segments of p but the last
GroupChain(p) == LET parts == Split(p) IN SubSeq(parts, 1, Len(parts) - 1)

(***************************************************************************)
(* C1                                                                      *)
(***************************************************************************)
C1_Placement ==
    /\ \A r \in Range(Processed) \cup TreeRepoSet(tree) :
          Count(tree.Repositories, r) + GroupsCount(tree.Groups, r) = Count(Processed, r)
    /\ \A r \in Range(Processed) :
          IF ~HasSlash(r.FullPath)
          THEN /\ r \in Range(tree.Repositories)
               /\ NodesHolding(tree, r) = {}
          ELSE /\ r \notin Range(tree.Repositories)
               /\ GroupChain(r.FullPath) \in NodePaths(tree.Groups)
               /\ NodesHolding(tree, r) = { GroupChain(r.FullPath) }

C1_Preserved ==
    /\ IsPrefixSeq(tree.Repositories, tree'.Repositories)
    /\ \A kp \in NodePaths(tree.Groups) :
          /\ kp \in NodePaths(tree'.Groups)
          /\ NodeAt(tree'.Groups, kp).Group = NodeAt(tree.Groups, kp).Group
          /\ IsPrefixSeq(NodeAt(tree.Groups, kp).Repositories,
                         NodeAt(tree'.Groups, kp).Repositories)

\* C1: after the GitLab builder has processed the first k repositories the tree
\* holds exactly those k repositories; a repository without '/' is in the root
\* list and in no GroupNode; a repository with '/' is in the Repositories list
\* of exactly the GroupNode reached by walking all segments but the last, and
\* nowhere else; a step of the loop keeps every existing node, its Group record
\* and the repositories already placed (they stay where they are, in order).
C1_GitLabTreeHoldsProcessed ==
    /\ [](builder = "gitlab" => C1_Placement)
    /\ [][builder = "gitlab" => C1_Preserved]_vars

\* "name" at root and "name/sub..." in group "name", both placed
C1_Witness ==
    /\ builder = "gitlab"
    /\ k = 2
    /\ ~HasSlash(repos[1].FullPath)
    /\ HasPrefix(repos[2].FullPath, repos[1].FullPath \o <<Slash>>)
    /\ tree.Repositories = <<repos[1]>>
    /\ <<repos[1].FullPath>> \in NodePaths(tree.Groups)

(***************************************************************************)
(* C2                                                                      *)
(***************************************************************************)
\* p is the '/'-join of a proper leading run of segments of an input FullPath
IsBuiltGroupPath(p) ==
    \E i \in 1..Len(repos) :
        LET parts == Split(repos[i].FullPath)
        IN  \E j \in 1..(Len(parts) - 1) : p = Join(SubSeq(parts, 1, j))

\* C2: in a finished GitLab tree, findGroupInTree(tree, P) for a group path P
\* the builder created a node for returns a non-nil GroupNode whose
\* Group.FullPath is P and whose Group.Name is the last segment of P.
C2_LookupLaw ==
    (/\ builder = "gitlab"
     /\ groupFilter # NoFilter
     /\ IsBuiltGroupPath(groupFilter))
    => /\ targetGroup # Nil
       /\ targetGroup.Group.FullPath = groupFilter
       /\ targetGroup.Group.Name = Split(groupFilter)[Len(Split(groupFilter))]

\* a nested group path (two segments) was looked up and found
C2_Witness ==
    /\ builder = "gitlab"
    /\ groupFilter # NoFilter
    /\ IsBuiltGroupPath(groupFilter)
    /\ Len(Split(groupFilter)) = 2
    /\ Split(groupFilter)[1] # <<>>
    /\ Split(groupFilter)[2] # <<>>
    /\ targetGroup # Nil

(***************************************************************************)
(* C3                                                                      *)
(***************************************************************************)
\* C3: findGroupInTree(tree, P) returns a node exactly when every segment of P
\* resolves consecutively from the root, and then it is the node at the end of
\* that walk; if a segment is absent at its level the result is nil, never the
\* node of a proper prefix of P.
C3_NoPartialMatch ==
    groupFilter # NoFilter =>
        LET parts == Split(groupFilter)
        IN  IF parts \in NodePaths(tree.Groups)
            THEN targetGroup = NodeAt(tree.Groups, parts)
            ELSE targetGroup = Nil

\* the first segment exists, the second does not: the lookup answered nil
C3_Witness ==
    /\ groupFilter # NoFilter
    /\ Len(Split(groupFilter)) = 2
    /\ <<Split(groupFilter)[1]>> \in NodePaths(tree.Groups)
    /\ Split(groupFilter) \notin NodePaths(tree.Groups)
    /\ targetGroup = Nil

(***************************************************************************)
(* C5                                                                      *)
(***************************************************************************)
\* C5: the GitHub builder flattens to one level: a repository with '/' is
\* directly in the Repositories list of the top-level group keyed by segment 0,
\* that group's Name and FullPath are segment 0, every SubGroups map is empty,
\* and a repository without '/' is in the root list.
C5_GitHubFlat ==
    builder = "github" =>
        /\ \A r \in Range(Processed) :
              LET org == Split(r.FullPath)[1]
              IN  IF HasSlash(r.FullPath)
                  THEN /\ org \in DOMAIN tree.Groups
                       /\ Count(tree.Groups[org].Repositories, r) = Count(Processed, r)
                       /\ tree.Groups[org].Group.Name = org
                       /\ tree.Groups[org].Group.FullPath = org
                       /\ r \notin Range(tree.Repositories)
                  ELSE /\ Count(tree.Repositories, r) = Count(Processed, r)
                       /\ GroupsCount(tree.Groups, r) = 0
        /\ \A g \in DOMAIN tree.Groups :
              /\ DOMAIN tree.Groups[g].SubGroups = {}
              /\ tree.Groups[g].Group.Name = g
              /\ tree.Groups[g].Group.FullPath = g

\* a repository three segments deep sits directly in its organisation's group
C5_Witness ==
    /\ builder = "github"
    /\ k = Len(repos)
    /\ \E i \in 1..k :
          /\ Len(Split(repos[i].FullPath)) = 3
          /\ Split(repos[i].FullPath)[1] \in DOMAIN tree.Groups
          /\ repos[i] \in Range(tree.Groups[Split(repos[i].FullPath)[1]].Repositories)

(***************************************************************************)
(* GitLab client: ListRepositoriesInGroup / listRepositoriesInSpecificGroup *)
(***************************************************************************)
RECURSIVE InsertSorted(_, _)
InsertSorted(s, r) ==
    IF s = <<>> THEN <<r>>
    ELSE IF StrLess(r.FullPath, Head(s).FullPath) THEN <<r>> \o s
    ELSE <<Head(s)>> \o InsertSorted(Tail(s), r)

RECURSIVE SortByFullPath(_)
\* sort.Slice(allRepos, func(i, j) { FullPath[i] < FullPath[j] }); records with
\* equal FullPath are equal records here, so the result is unique
SortByFullPath(s) ==
    IF s = <<>> THEN <<>>
    ELSE InsertSorted(SortByFullPath(SubSeq(s, 1, Len(s) - 1)), s[Len(s)])

\* variant: plain prefix test, no anchoring on the following '/'
GroupMatch_PlainPrefix(path, groupPath) == HasPrefix(path, groupPath)

\* the condition of the `if` inside the page loop
GroupMatch(path, groupPath) ==
    HasPrefix(path, groupPath \o <<Slash>>) \/ path = groupPath

RECURSIVE KeepMatching(_, _)
\* the loop over one page of listRepositoriesInSpecificGroup: the new entries
KeepMatching(projects, groupPath) ==
    IF projects = <<>> THEN <<>>
    ELSE IF GroupMatch(Head(projects), groupPath)
         THEN <<Repository(Head(projects), "gitlab")>> \o KeepMatching(Tail(projects), groupPath)
         ELSE KeepMatching(Tail(projects), groupPath)

\* the loop over one page of ListRepositoriesInGroup(""): every project is kept
KeepAll(projects) == [i \in 1..Len(projects) |-> Repository(projects[i], "gitlab")]

\* "ab" starts with "a" without lying under it
FilterSegments == {<<"a">>, <<"a", "b">>}

ProjectPaths == PathsOf(FilterSegments, 1, MaxProjSegs)

\* the groupPath argument; "" asks for every repository
GroupPaths == PathsOf(FilterSegments, 1, MaxGroupSegs) \cup {<<>>}

\* one page of an API answer when `served` projects were served before
ApiPages(served) == StringsOver(ProjectPaths, 0, MaxProjects - served)

GlInit ==
    /\ glGroupPath \in GroupPaths
    /\ glPc = IF glGroupPath # <<>> THEN "getGroup" ELSE "list"
    /\ glPage = 1
    /\ glProjects = <<>>
    /\ glServed = 0
    /\ glAllRepos = <<>>
    /\ glResult = Nil
    /\ TreeIdle
    /\ LtIdle
    /\ DsIdle
    /\ PgIdle
    /\ CfIdle
    /\ TwIdle
    /\ FdIdle
    /\ PrIdle
    /\ FsIdle
    /\ CmIdle

\* c.client.Groups.GetGroup(groupPath, nil) answers
GlGetGroupOk ==
    /\ glPc = "getGroup"
    /\ glPc' = "list"
    /\ UNCHANGED <<glGroupPath, glPage, glProjects, glServed, glAllRepos, glResult, nonGlVars>>

\* GetGroup or a page request fails: return nil, err
GlRequestFails ==
    /\ glPc \in {"getGroup", "list"}
    /\ glPc' = "error"
    /\ glResult' = Nil
    /\ UNCHANGED <<glGroupPath, glPage, glProjects, glServed, glAllRepos, nonGlVars>>

\* one page arrives with NextPage # 0: keep its projects, ask for the next page
GlPageMore ==
    /\ glPc = "list"
    /\ glPage < MaxPages
    /\ \E projects \in ApiPages(glServed) :
          /\ glProjects' = projects
          /\ glServed' = glServed + Len(projects)
          /\ glAllRepos' = glAllRepos \o
                (IF glGroupPath # <<>> THEN KeepMatching(projects, glGroupPath)
                 ELSE KeepAll(projects))
    /\ glPage' = glPage + 1
    /\ UNCHANGED <<glGroupPath, glPc, glResult, nonGlVars>>

\* one page arrives with NextPage = 0: keep its projects, sort, return
GlPageLast ==
    /\ glPc = "list"
    /\ \E projects \in ApiPages(glServed) :
          /\ glProjects' = projects
          /\ glServed' = glServed + Len(projects)
          /\ glAllRepos' = glAllRepos \o
                (IF glGroupPath # <<>> THEN KeepMatching(projects, glGroupPath)
                 ELSE KeepAll(projects))
    /\ glResult' = SortByFullPath(glAllRepos')
    /\ glPc' = "done"
    /\ UNCHANGED <<glGroupPath, glPage, nonGlVars>>

GlNext == GlGetGroupOk \/ GlRequestFails \/ GlPageMore \/ GlPageLast

SpecGitLabList == GlInit /\ [][GlNext]_vars

(***************************************************************************)
(* C4                                                                      *)
(***************************************************************************)
\* path is G itself, or continues G with a '/'
C4_Under(path, g) ==
    \/ path = g
    \/ /\ Len(path) > Len(g)
       /\ \A i \in 1..Len(g) : path[i] = g[i]
       /\ path[Len(g) + 1] = Slash

\* the projects of a page that lie under g, in page order
C4_Selected(projects, g) ==
    LET idx == { i \in 1..Len(projects) : C4_Under(projects[i], g) }
        nth(n) == CHOOSE i \in idx : Cardinality({ j \in idx : j < i }) = n - 1
    IN  [n \in 1..Cardinality(idx) |-> Repository(projects[nth(n)], "gitlab")]

C4_PageStep ==
    (glGroupPath # <<>> /\ glPc = "list" /\ glPc' \in {"list", "done"})
    => glAllRepos' = glAllRepos \o C4_Selected(glProjects', glGroupPath)

C4_Returned ==
    (glGroupPath # <<>> /\ glPc = "done")
    => /\ IsSortedByFullPath(glResult)
       /\ Len(glResult) = Len(glAllRepos)
       /\ \A r \in Range(glAllRepos) \cup Range(glResult) :
             Count(glResult, r) = Count(glAllRepos, r)
       /\ \A r \in Range(glResult) : C4_Under(r.FullPath, glGroupPath)

\* C4: with a non-empty group path G, a project the API returns is included in
\* the result if and only if its full path is G or starts with G + "/" (so
\* "team-ab/x" is never included for "team-a"): every page adds exactly its
\* projects under G, and the returned list is those entries sorted ascending
\* by FullPath.
C4_FilterLaw ==
    /\ []C4_Returned
    /\ [][C4_PageStep]_vars

\* G = "a": the last page held a project starting with "a" but not under it
\* ("ab..."), an earlier page one under it; the result has only the latter
C4_Witness ==
    /\ glPc = "done"
    /\ glGroupPath = <<"a">>
    /\ \E i \in 1..Len(glProjects) :
          /\ HasPrefix(glProjects[i], glGroupPath \o <<"b">>)
          /\ Repository(glProjects[i], "gitlab") \notin Range(glResult)
    /\ Len(glResult) >= 1

(***************************************************************************)
(* Local paths: filepath.Join, the filesystem, the path resolver           *)
(*                                                                         *)
(* No token is "." or "..", so filepath.Clean only collapses runs of '/'   *)
(* and drops a trailing '/'.                                               *)
(***************************************************************************)
RECURSIVE Squeeze(_)
Squeeze(s) ==
    IF Len(s) <= 1 THEN s
    ELSE IF s[1] = Slash /\ s[2] = Slash THEN Squeeze(Tail(s))
    ELSE <<s[1]>> \o Squeeze(Tail(s))

\* filepath.Clean
Clean(s) ==
    LET q == Squeeze(s)
    IN  IF q = <<>> THEN <<".">>
        ELSE IF Len(q) > 1 /\ q[Len(q)] = Slash THEN SubSeq(q, 1, Len(q) - 1)
        ELSE q

\* filepath.Join(elems...): empty elements are ignored, the rest joined with
\* '/' and cleaned
PathJoin(elems) ==
    LET ne == SelectSeq(elems, LAMBDA e : e # <<>>)
    IN  IF ne = <<>> THEN <<>> ELSE Clean(Join(ne))

\* cfg.Local.BaseDir
BaseDir == <<"/", "base">>

\* the directories above an absolute cleaned path
Ancestors(p) ==
    { Clean(SubSeq(p, 1, i)) : i \in { j \in 1..(Len(p) - 1) : p[j] = Slash } }

\* os.MkdirAll(p): p and every missing directory above it
MkdirAll(files, p) == files \cup {p} \cup Ancestors(p)

\* os.Stat(p) returns err == nil
StatOk(files, p) == p \in files

\* variant: the legacy location is tried first
ResolveRepositoryPath_LegacyFirst(files, repo) ==
    LET providerPath == PathJoin(<<BaseDir, <<repo.Provider>>, repo.FullPath>>)
        legacyPath   == PathJoin(<<BaseDir, repo.FullPath>>)
    IN  IF StatOk(files, legacyPath) THEN legacyPath
        ELSE IF StatOk(files, providerPath) THEN providerPath
        ELSE providerPath

\* paths.ResolveRepositoryPath(cfg, repo) on filesystem `files`
ResolveRepositoryPath(files, repo) ==
    LET providerPath == PathJoin(<<BaseDir, <<repo.Provider>>, repo.FullPath>>)
        legacyPath   == PathJoin(<<BaseDir, repo.FullPath>>)
    IN  IF StatOk(files, providerPath) THEN providerPath
        ELSE IF StatOk(files, legacyPath) THEN legacyPath
        ELSE providerPath

\* paths.GetClonePath(cfg, repo)
GetClonePath(repo) == PathJoin(<<BaseDir, <<repo.Provider>>, repo.FullPath>>)

Providers == {"gitlab", "github"}

\* a FullPath may start with a segment spelled like a provider tag
LocalSegments == {<<"a">>, <<"gitlab">>}

LocalRepos ==
    { Repository(p, pv) : p \in PathsOf(LocalSegments, 1, MaxLocalSegs), pv \in Providers }

PrInit ==
    /\ fs = {}
    /\ prCall = "none"
    /\ prRepo = Nil
    /\ prResult = Nil
    /\ TreeIdle
    /\ LtIdle
    /\ DsIdle
    /\ PgIdle
    /\ CfIdle
    /\ TwIdle
    /\ FdIdle
    /\ GlIdle
    /\ CmIdle

\* something outside the tool creates a repository directory, in the
\* provider-namespaced or in the legacy layout
PrCreateDir ==
    /\ prCall = "none"
    /\ Cardinality({ p \in fs : \A q \in fs : p \notin Ancestors(q) }) < MaxFsEntries
    /\ \E r \in LocalRepos :
          \E p \in { PathJoin(<<BaseDir, <<r.Provider>>, r.FullPath>>),
                     PathJoin(<<BaseDir, r.FullPath>>) } :
              /\ p \notin fs
              /\ fs' = MkdirAll(fs, p)
    /\ UNCHANGED <<prVars, nonPrVars>>

PrResolve ==
    /\ prCall = "none"
    /\ \E r \in LocalRepos :
          /\ prRepo' = r
          /\ prResult' = ResolveRepositoryPath(fs, r)
    /\ prCall' = "resolve"
    /\ UNCHANGED <<fs, nonPrVars>>

PrGetClonePath ==
    /\ prCall = "none"
    /\ \E r \in LocalRepos :
          /\ prRepo' = r
          /\ prResult' = GetClonePath(r)
    /\ prCall' = "clonePath"
    /\ UNCHANGED <<fs, nonPrVars>>

PrNext == PrCreateDir \/ PrResolve \/ PrGetClonePath

SpecPaths == PrInit /\ [][PrNext]_vars

(***************************************************************************)
(* C6                                                                      *)
(***************************************************************************)
C6_ProviderPath == PathJoin(<<BaseDir, <<prRepo.Provider>>, prRepo.FullPath>>)

C6_LegacyPath == PathJoin(<<BaseDir, prRepo.FullPath>>)

C6_Cases ==
    prCall = "resolve" =>
        /\ (C6_LegacyPath \in fs /\ C6_ProviderPath \notin fs) => prResult = C6_LegacyPath
        /\ (C6_ProviderPath \in fs /\ C6_LegacyPath \notin fs) => prResult = C6_ProviderPath
        /\ (C6_ProviderPath \in fs /\ C6_LegacyPath \in fs) => prResult = C6_ProviderPath
        /\ (C6_ProviderPath \notin fs /\ C6_LegacyPath \notin fs) => prResult = C6_ProviderPath
        /\ prResult \in {C6_ProviderPath, C6_LegacyPath}

\* C6: ResolveRepositoryPath returns the legacy path when only the legacy path
\* exists, and the provider path when only the provider path exists, when both
\* exist and when neither exists; the result is one of the two paths and the
\* call leaves the filesystem as it was.
C6_ResolutionLaw ==
    /\ []C6_Cases
    /\ [][prCall' = "resolve" => fs' = fs]_vars

\* both locations exist (neither inside the other) and the provider path won
C6_Witness ==
    /\ prCall = "resolve"
    /\ C6_ProviderPath \in fs
    /\ C6_LegacyPath \in fs
    /\ C6_LegacyPath \notin Ancestors(C6_ProviderPath)
    /\ prResult = C6_ProviderPath
    /\ prResult # C6_LegacyPath

-----------------------------------------------------------------------------
\* The clone command (cmd/clone.go) over the git package.  A provider client is
\* its provider type and the answer it gives to the one query the command
\* sends it: an error (Ok = FALSE) or a list of repositories of that provider.

Client(type, ok, fullPaths) ==
    [Type  |-> type,
     Ok    |-> ok,
     Repos |-> [i \in 1..Len(fullPaths) |-> Repository(fullPaths[i], type)]]

\* answers of a client: an error, or a list sorted by FullPath
ClientAnswers ==
    { <<FALSE, <<>>>>, <<TRUE, <<>>>>,
      <<TRUE, << <<"a">>, <<"a", Slash, "a">> >>>> }

Clients == { Client(t, a[1], a[2]) : t \in Providers, a \in ClientAnswers }

\* cfg.Providers is not empty (runClone returns "no providers configured")
ClientLists == UNION { [1..n -> Clients] : n \in 1..MaxClients }

DotGit == <<".git">>

\* what may lie on disk before the command runs: the provider-namespaced and
\* the legacy location of repository "a", as a plain directory or as a clone
OnDiskCandidates ==
    LET dirs == { PathJoin(<<BaseDir, <<t>>, <<"a">>>>) : t \in Providers }
                    \cup { PathJoin(<<BaseDir, <<"a">>>>) }
    IN  dirs \cup { PathJoin(<<d, DotGit>>) : d \in dirs }

RECURSIVE MkdirAllOf(_, _)
MkdirAllOf(files, ps) ==
    IF ps = {} THEN files
    ELSE LET p == CHOOSE x \in ps : TRUE
         IN  MkdirAllOf(MkdirAll(files, p), ps \ {p})

InitialDisks ==
    { MkdirAllOf({}, ps) : ps \in { q \in SUBSET OnDiskCandidates : Cardinality(q) <= MaxOnDisk } }

\* variant: the .git directory is never found
GetRepositoryStatus_NeverGitRepo(files, repoPath) ==
    [Exists |-> StatOk(files, repoPath), IsGitRepo |-> FALSE]

\* git.GetRepositoryStatus(repoPath) up to the two os.Stat calls; the git
\* subprocesses that follow when IsGitRepo may fail, which is the caller's
\* choice of gitOk
GetRepositoryStatus(files, repoPath) ==
    [Exists    |-> StatOk(files, repoPath),
     IsGitRepo |-> StatOk(files, repoPath) /\ StatOk(files, PathJoin(<<repoPath, DotGit>>))]

\* filepath.Dir of a cleaned absolute path below the root
Dir(p) ==
    LET cut == CHOOSE i \in 1..Len(p) :
                   p[i] = Slash /\ \A j \in (i + 1)..Len(p) : p[j] # Slash
    IN  IF cut = 1 THEN <<Slash>> ELSE SubSeq(p, 1, cut - 1)

\* git.CloneRepository(cloneURL, targetPath): MkdirAll(Dir(targetPath)) fails
\* ("mkdirFails"), or git clone fails after it ("cloneFails"), or the clone is
\* made
CloneOutcomes == {"ok", "mkdirFails", "cloneFails"}

CloneRepository(files, targetPath, outcome) ==
    IF outcome = "mkdirFails" THEN files
    ELSE IF outcome = "cloneFails" THEN MkdirAll(files, Dir(targetPath))
    ELSE MkdirAll(files, PathJoin(<<targetPath, DotGit>>))

\* one entry of the command's trace
Event(ev, client, provider, arg, repo, path, out) ==
    [ev |-> ev, client |-> client, provider |-> provider, arg |-> arg,
     repo |-> repo, path |-> path, out |-> out]

\* client number i was queried with argument cmArg and answered
QueryEv(i) ==
    Event("query", i, cmClients[i].Type, cmArg, Nil, <<>>,
          IF cmClients[i].Ok THEN "ok" ELSE "err")

\* the printed line that names the failing provider
ReportEv(i) == Event("report", i, cmClients[i].Type, cmArg, Nil, <<>>, "err")

GitEv(ev, repo, path, out) == Event(ev, 0, repo.Provider, <<>>, repo, path, out)

\* useSSH of runClone: the --ssh flag is declared with default true, and
\* --https sets useSSH to false
UseSSH(sshPassed, httpsPassed) == IF httpsPassed THEN FALSE ELSE TRUE

\* `cloneURL := repo.CloneURL; if useSSH { cloneURL = repo.SSHCloneURL }`
CloneURL(useSSH) == IF useSSH THEN "SSHCloneURL" ELSE "CloneURL"

\* git.CloneRepository(cloneURL, localPath, useSSH) was called and returned
CloneEv(repo, path, url, out) ==
    [ev |-> "clone", client |-> 0, provider |-> repo.Provider, arg |-> <<>>,
     repo |-> repo, path |-> path, out |-> out, url |-> url]

\* variant: the location is looked up as the status display does
CloneLocalPath_Resolved(files, repo) == ResolveRepositoryPath(files, repo)

\* localPath of the clone command; the filesystem is not consulted
CloneLocalPath(files, repo) == PathJoin(<<BaseDir, <<repo.Provider>>, repo.FullPath>>)

\* variant: the repositories of a later client are put first
CollectAppend_Prepend(all, client) == IF client.Ok THEN client.Repos \o all ELSE all

\* variant: an error discards what was collected so far
CollectAppend_ResetOnError(all, client) == IF client.Ok THEN all \o client.Repos ELSE <<>>

\* `if err != nil { continue }; allRepos = append(allRepos, repos...)`
CollectAppend(all, client) == IF client.Ok THEN all \o client.Repos ELSE all

\* variant: an empty group is reported by the summary alone
CloneGroupAfterCollect_NoCheck(all) ==
    IF all = <<>> THEN [pc |-> "done", ret |-> "nil"]
    ELSE [pc |-> "process", ret |-> "running"]

\* cloneGroupRepositories after its collecting loop: `if len(allRepos) == 0
\* { return fmt.Errorf("no repositories found in group '%s'", groupPath) }`
CloneGroupAfterCollect(all) ==
    IF all = <<>> THEN [pc |-> "done", ret |-> "errNoReposInGroup"]
    ELSE [pc |-> "process", ret |-> "running"]

\* cloneAllRepositories after its collecting loop: the processing loop runs
\* over allRepos, and with nothing to process the summary is printed and nil
\* returned
CloneAllAfterCollect(all) ==
    IF all = <<>> THEN [pc |-> "done", ret |-> "nil"]
    ELSE [pc |-> "process", ret |-> "running"]

\* variant: the last matching repository of the list is taken
findRepositoryByPath_LastMatch(client, repoPath) ==
    LET hits == { i \in 1..Len(client.Repos) :
                      \/ client.Repos[i].FullPath = repoPath
                      \/ HasSuffix(client.Repos[i].FullPath, repoPath) }
    IN  IF ~client.Ok \/ hits = {} THEN Nil
        ELSE client.Repos[CHOOSE i \in hits : \A j \in hits : i >= j]

\* findRepositoryByPath(client, repoPath): the first repository of the
\* client's list whose FullPath is repoPath or ends with it; Nil stands for
\* both error returns
findRepositoryByPath(client, repoPath) ==
    LET hits == { i \in 1..Len(client.Repos) :
                      \/ client.Repos[i].FullPath = repoPath
                      \/ HasSuffix(client.Repos[i].FullPath, repoPath) }
    IN  IF ~client.Ok \/ hits = {} THEN Nil
        ELSE client.Repos[CHOOSE i \in hits : \A j \in hits : i <= j]

CloneModes == {"cloneAll", "cloneGroup", "cloneSingle"}

\* the positional argument of each mode
ArgsOf(mode) ==
    CASE mode \in {"cloneAll", "mgrListAll"} -> {<<>>}
      [] mode \in {"cloneGroup", "mgrListGroup"} -> {<<"a">>}
      [] mode = "cloneSingle" -> {<<"a">>, <<"a", Slash, "a">>}
      [] mode = "list" -> {<<>>, <<"a">>}

CmStart(modes, updates, protocolFlags, clientLists) ==
    /\ fs \in InitialDisks
    /\ cmClients \in clientLists
    /\ cmMode \in modes
    /\ \E f \in protocolFlags : cmSsh = f[1] /\ cmHttps = f[2]
    /\ cmArg \in ArgsOf(cmMode)
    /\ cmUpdate \in updates
    /\ cmPc = "collect"
    /\ cmCi = 1
    /\ cmAllRepos = <<>>
    /\ cmFound = Nil
    /\ cmRi = 0
    /\ cmSuccessful = 0
    /\ cmFailed = 0
    /\ cmLog = <<>>
    /\ cmRet = "running"

\* any number of clients, --ssh and --https not passed
CloneInit ==
    /\ CmStart(CloneModes, BOOLEAN, {<<FALSE, FALSE>>}, ClientLists)
    /\ TreeIdle
    /\ LtIdle
    /\ DsIdle
    /\ PgIdle
    /\ CfIdle
    /\ TwIdle
    /\ FdIdle
    /\ GlIdle
    /\ PrIdle

\* one iteration of the collecting loop of cloneAllRepositories; the last
\* iteration runs on to the start of the processing loop
CloneAllCollect ==
    /\ cmMode = "cloneAll"
    /\ cmPc = "collect"
    /\ LET client == cmClients[cmCi]
           all    == CollectAppend(cmAllRepos, client)
           after  == CloneAllAfterCollect(all)
           last   == cmCi = Len(cmClients)
       IN  /\ cmLog' = cmLog \o <<QueryEv(cmCi)>>
                           \o (IF client.Ok THEN <<>> ELSE <<ReportEv(cmCi)>>)
           /\ cmAllRepos' = all
           /\ cmCi' = cmCi + 1
           /\ cmPc' = IF last THEN after.pc ELSE "collect"
           /\ cmRet' = IF last THEN after.ret ELSE cmRet
    /\ UNCHANGED <<cmMode, cmClients, cmArg, cmUpdate, cmSsh, cmHttps, cmFound, cmRi,
                   cmSuccessful, cmFailed, fs, nonCmVars>>

\* one iteration of the collecting loop of cloneGroupRepositories: a failing
\* client is skipped with nothing printed
CloneGroupCollect ==
    /\ cmMode = "cloneGroup"
    /\ cmPc = "collect"
    /\ LET client == cmClients[cmCi]
           all    == CollectAppend(cmAllRepos, client)
           after  == CloneGroupAfterCollect(all)
           last   == cmCi = Len(cmClients)
       IN  /\ cmLog' = cmLog \o <<QueryEv(cmCi)>>
           /\ cmAllRepos' = all
           /\ cmCi' = cmCi + 1
           /\ cmPc' = IF last THEN after.pc ELSE "collect"
           /\ cmRet' = IF last THEN after.ret ELSE cmRet
    /\ UNCHANGED <<cmMode, cmClients, cmArg, cmUpdate, cmSsh, cmHttps, cmFound, cmRi,
                   cmSuccessful, cmFailed, fs, nonCmVars>>

\* variant: a failure is printed but not counted
BatchCount_FailureDropped(successful, failed, ok) ==
    [successful |-> successful + (IF ok THEN 1 ELSE 0), failed |-> failed]

\* `successful++` or `failed++` at the end of one repository's processing
BatchCount(successful, failed, ok) ==
    [successful |-> successful + (IF ok THEN 1 ELSE 0),
     failed     |-> failed + (IF ok THEN 0 ELSE 1)]

\* one iteration of the processing loop shared, line for line, by
\* cloneAllRepositories and cloneGroupRepositories; after the last repository
\* the summary is printed and nil returned
CloneBatchProcess ==
    /\ cmMode \in {"cloneAll", "cloneGroup"}
    /\ cmPc = "process"
    /\ LET repo      == cmAllRepos[cmRi + 1]
           localPath == CloneLocalPath(fs, repo)
           status    == GetRepositoryStatus(fs, localPath)
           last      == cmRi + 1 = Len(cmAllRepos)
       IN  /\ cmRi' = cmRi + 1
           /\ cmPc' = IF last THEN "done" ELSE "process"
           /\ cmRet' = IF last THEN "nil" ELSE cmRet
           /\ IF status.Exists /\ status.IsGitRepo
              THEN \E gitOk \in BOOLEAN, pullOk \in BOOLEAN :
                     /\ fs' = fs
                     /\ IF ~gitOk
                        THEN /\ cmLog' = cmLog \o <<GitEv("status", repo, localPath, "err")>>
                             /\ cmFailed' = BatchCount(cmSuccessful, cmFailed, FALSE).failed
                             /\ cmSuccessful' = BatchCount(cmSuccessful, cmFailed, FALSE).successful
                        ELSE IF cmUpdate
                        THEN /\ cmLog' = cmLog \o
                                   <<GitEv("status", repo, localPath, "cloned"),
                                     GitEv("pull", repo, localPath, IF pullOk THEN "ok" ELSE "err")>>
                             /\ cmFailed' = BatchCount(cmSuccessful, cmFailed, pullOk).failed
                             /\ cmSuccessful' = BatchCount(cmSuccessful, cmFailed, pullOk).successful
                        ELSE /\ cmLog' = cmLog \o <<GitEv("status", repo, localPath, "cloned")>>
                             /\ cmFailed' = BatchCount(cmSuccessful, cmFailed, TRUE).failed
                             /\ cmSuccessful' = BatchCount(cmSuccessful, cmFailed, TRUE).successful
              ELSE \E outcome \in CloneOutcomes :
                     /\ fs' = CloneRepository(fs, localPath, outcome)
                     /\ cmLog' = cmLog \o
                           <<GitEv("status", repo, localPath,
                                   IF status.Exists THEN "notGit" ELSE "absent"),
                             CloneEv(repo, localPath, CloneURL(UseSSH(cmSsh, cmHttps)), outcome)>>
                     /\ cmFailed' = BatchCount(cmSuccessful, cmFailed, outcome = "ok").failed
                     /\ cmSuccessful' = BatchCount(cmSuccessful, cmFailed, outcome = "ok").successful
    /\ UNCHANGED <<cmMode, cmClients, cmArg, cmUpdate, cmSsh, cmHttps, cmCi, cmAllRepos,
                   cmFound, nonCmVars>>

\* one iteration of the searching loop of cloneSingleRepository: the first
\* client with a match ends the search
CloneSingleSearch ==
    /\ cmMode = "cloneSingle"
    /\ cmPc = "collect"
    /\ LET found == findRepositoryByPath(cmClients[cmCi], cmArg)
           last  == cmCi = Len(cmClients)
       IN  /\ cmLog' = cmLog \o <<QueryEv(cmCi)>>
           /\ cmFound' = found
           /\ cmCi' = IF found # Nil THEN cmCi ELSE cmCi + 1
           /\ cmPc' = IF found # Nil THEN "process"
                      ELSE IF last THEN "done" ELSE "collect"
           /\ cmRet' = IF found = Nil /\ last THEN "errNotFound" ELSE cmRet
    /\ UNCHANGED <<cmMode, cmClients, cmArg, cmUpdate, cmSsh, cmHttps, cmAllRepos, cmRi,
                   cmSuccessful, cmFailed, fs, nonCmVars>>

\* cloneSingleRepository once foundRepo is set
CloneSingleProcess ==
    /\ cmMode = "cloneSingle"
    /\ cmPc = "process"
    /\ LET repo      == cmFound
           localPath == CloneLocalPath(fs, repo)
           status    == GetRepositoryStatus(fs, localPath)
       IN  IF status.Exists /\ status.IsGitRepo
           THEN \E gitOk \in BOOLEAN, pullOk \in BOOLEAN :
                  /\ fs' = fs
                  /\ IF ~gitOk
                     THEN /\ cmLog' = cmLog \o <<GitEv("status", repo, localPath, "err")>>
                          /\ cmRet' = "errStatus"
                     ELSE IF cmUpdate
                     THEN /\ cmLog' = cmLog \o
                                <<GitEv("status", repo, localPath, "cloned"),
                                  GitEv("pull", repo, localPath, IF pullOk THEN "ok" ELSE "err")>>
                          /\ cmRet' = IF pullOk THEN "nil" ELSE "errPull"
                     ELSE /\ cmLog' = cmLog \o <<GitEv("status", repo, localPath, "cloned")>>
                          /\ cmRet' = "nil"
           ELSE IF status.Exists
           THEN /\ fs' = fs
                /\ cmLog' = cmLog \o <<GitEv("status", repo, localPath, "notGit")>>
                /\ cmRet' = "errNotGit"
           ELSE \E outcome \in CloneOutcomes :
                  /\ fs' = CloneRepository(fs, localPath, outcome)
                  /\ cmLog' = cmLog \o
                        <<GitEv("status", repo, localPath, "absent"),
                          CloneEv(repo, localPath, CloneURL(UseSSH(cmSsh, cmHttps)), outcome)>>
                  /\ cmRet' = IF outcome = "ok" THEN "nil" ELSE "errClone"
    /\ cmPc' = "done"
    /\ UNCHANGED <<cmMode, cmClients, cmArg, cmUpdate, cmSsh, cmHttps, cmCi, cmAllRepos,
                   cmFound, cmRi, cmSuccessful, cmFailed, nonCmVars>>

CloneNext ==
    \/ CloneAllCollect
    \/ CloneGroupCollect
    \/ CloneBatchProcess
    \/ CloneSingleSearch
    \/ CloneSingleProcess

SpecClone == CloneInit /\ [][CloneNext]_vars

\* one client, every combination of --ssh and --https
CloneProtocolInit ==
    /\ CmStart(CloneModes, BOOLEAN, BOOLEAN \X BOOLEAN, [1..1 -> Clients])
    /\ TreeIdle
    /\ LtIdle
    /\ DsIdle
    /\ PgIdle
    /\ CfIdle
    /\ TwIdle
    /\ FdIdle
    /\ GlIdle
    /\ PrIdle

SpecCloneProtocol == CloneProtocolInit /\ [][CloneNext]_vars

-----------------------------------------------------------------------------
\* The list command without --tree (displayRepositoryList, with the default
\* --status) and the two aggregating methods of scm.MultiClientManager.

ListModes == {"list", "mgrListAll", "mgrListGroup"}

ListInit ==
    /\ CmStart(ListModes, {FALSE}, {<<FALSE, FALSE>>}, ClientLists)
    /\ TreeIdle
    /\ LtIdle
    /\ DsIdle
    /\ PgIdle
    /\ CfIdle
    /\ TwIdle
    /\ FdIdle
    /\ GlIdle
    /\ PrIdle

\* one iteration of the collecting loop of displayRepositoryList: an error
\* of a client is returned at once
ListCollect ==
    /\ cmMode = "list"
    /\ cmPc = "collect"
    /\ LET client == cmClients[cmCi]
           all    == cmAllRepos \o client.Repos
           last   == cmCi = Len(cmClients)
       IN  /\ cmLog' = cmLog \o <<QueryEv(cmCi)>>
           /\ cmCi' = cmCi + 1
           /\ IF ~client.Ok
              THEN /\ cmAllRepos' = cmAllRepos
                   /\ cmPc' = "done"
                   /\ cmRet' = "errProvider"
              ELSE /\ cmAllRepos' = all
                   /\ cmPc' = IF ~last THEN "collect"
                              ELSE IF all = <<>> THEN "done" ELSE "process"
                   /\ cmRet' = IF last /\ all = <<>> THEN "nil" ELSE cmRet
    /\ UNCHANGED <<cmMode, cmClients, cmArg, cmUpdate, cmSsh, cmHttps, cmFound, cmRi,
                   cmSuccessful, cmFailed, fs, nonCmVars>>

\* one iteration of the display loop of displayRepositoryList
ListDisplay ==
    /\ cmMode = "list"
    /\ cmPc = "process"
    /\ LET repo      == cmAllRepos[cmRi + 1]
           localPath == PathJoin(<<BaseDir, <<repo.Provider>>, repo.FullPath>>)
           status    == GetRepositoryStatus(fs, localPath)
           last      == cmRi + 1 = Len(cmAllRepos)
       IN  /\ cmRi' = cmRi + 1
           /\ cmPc' = IF last THEN "done" ELSE "process"
           /\ cmRet' = IF last THEN "nil" ELSE cmRet
           /\ \E gitOk \in BOOLEAN :
                cmLog' = cmLog \o
                    <<GitEv("display", repo, <<>>, "ok"),
                      GitEv("status", repo, localPath,
                            IF status.IsGitRepo /\ ~gitOk THEN "err"
                            ELSE IF status.IsGitRepo THEN "cloned"
                            ELSE IF status.Exists THEN "notGit"
                            ELSE "absent")>>
    /\ UNCHANGED <<cmMode, cmClients, cmArg, cmUpdate, cmSsh, cmHttps, cmCi, cmAllRepos,
                   cmFound, cmSuccessful, cmFailed, fs, nonCmVars>>

\* one iteration of the loop of MultiClientManager.ListAllRepositories and
\* MultiClientManager.ListRepositoriesInGroup: `return nil, err` on the first
\* failing client, `return allRepos, nil` after the last
MgrCollect ==
    /\ cmMode \in {"mgrListAll", "mgrListGroup"}
    /\ cmPc = "collect"
    /\ LET client == cmClients[cmCi]
           last   == cmCi = Len(cmClients)
       IN  /\ cmLog' = cmLog \o <<QueryEv(cmCi)>>
           /\ cmCi' = cmCi + 1
           /\ IF ~client.Ok
              THEN /\ cmAllRepos' = <<>>
                   /\ cmPc' = "done"
                   /\ cmRet' = "errList"
              ELSE /\ cmAllRepos' = cmAllRepos \o client.Repos
                   /\ cmPc' = IF last THEN "done" ELSE "collect"
                   /\ cmRet' = IF last THEN "nil" ELSE cmRet
    /\ UNCHANGED <<cmMode, cmClients, cmArg, cmUpdate, cmSsh, cmHttps, cmFound, cmRi,
                   cmSuccessful, cmFailed, fs, nonCmVars>>

ListNext ==
    \/ ListCollect
    \/ ListDisplay
    \/ MgrCollect

SpecList == ListInit /\ [][ListNext]_vars

-----------------------------------------------------------------------------
\* Readers of the command trace

EventsOf(kind) == SelectSeq(cmLog, LAMBDA e : e.ev = kind)

ReposOf(events) == [i \in 1..Len(events) |-> events[i].repo]

RECURSIVE ConcatOk(_)
ConcatOk(clients) ==
    IF clients = <<>> THEN <<>>
    ELSE (IF Head(clients).Ok THEN Head(clients).Repos ELSE <<>>) \o ConcatOk(Tail(clients))

AllClientsFail == \A i \in 1..Len(cmClients) : ~cmClients[i].Ok

NoGitCalls == \A i \in 1..Len(cmLog) : cmLog[i].ev \notin {"status", "clone", "pull"}

\* C7: in every clone mode, the path whose status is checked and the path
\* handed to git clone are GetClonePath(repo) = join(BaseDir, Provider,
\* FullPath), whatever lies on disk, a clone at the legacy path included.
C7_ClonesAtProviderPath ==
    cmMode \in CloneModes =>
        \A i \in 1..Len(cmLog) :
            cmLog[i].ev \in {"status", "clone"} =>
                /\ cmLog[i].path = GetClonePath(cmLog[i].repo)
                /\ cmLog[i].path = PathJoin(<<BaseDir, <<cmLog[i].repo.Provider>>,
                                              cmLog[i].repo.FullPath>>)

\* git clone was run for a repository that has a clone at its legacy path
C7_Witness ==
    /\ cmMode \in CloneModes
    /\ \E i \in 1..Len(cmLog) :
         LET legacy == PathJoin(<<BaseDir, cmLog[i].repo.FullPath>>)
         IN  /\ cmLog[i].ev = "clone"
             /\ cmLog[i].out = "ok"
             /\ PathJoin(<<legacy, DotGit>>) \in fs
             /\ cmLog[i].path # legacy
             /\ cmLog[i].path = GetClonePath(cmLog[i].repo)

C8_Queries ==
    LET q == EventsOf("query")
    IN  /\ Len(q) = cmCi - 1
        /\ \A i \in 1..Len(q) : q[i].client = i
        /\ cmPc # "collect" => Len(q) = Len(cmClients)

C8_Reports ==
    /\ \A j \in 1..Len(cmLog) :
         cmLog[j].ev = "report" => cmLog[j].provider = cmClients[cmLog[j].client].Type
    /\ \A i \in 1..(cmCi - 1) :
         Cardinality({ j \in 1..Len(cmLog) : cmLog[j].ev = "report" /\ cmLog[j].client = i })
             = IF cmClients[i].Ok THEN 0 ELSE 1

C8_Processed ==
    /\ ReposOf(EventsOf("status")) = SubSeq(ConcatOk(cmClients), 1, cmRi)
    /\ cmPc # "collect" => cmAllRepos = ConcatOk(cmClients)
    /\ cmPc = "done" => cmRi = Len(ConcatOk(cmClients))

\* C8: cloneAllRepositories queries every client in order, whatever the
\* earlier clients answered; it reports one error, labelled with the provider
\* type, for each client that failed; and the repositories it processes are
\* the concatenation, in client order, of the lists of the clients that
\* succeeded.
C8_CloneAllIsolation ==
    cmMode = "cloneAll" => C8_Queries /\ C8_Reports /\ C8_Processed

\* the first client failed, the second was still queried and its
\* repositories were processed
C8_Witness ==
    /\ cmMode = "cloneAll"
    /\ cmPc = "done"
    /\ Len(cmClients) = 2
    /\ ~cmClients[1].Ok
    /\ cmClients[2].Ok
    /\ Len(cmClients[2].Repos) = 2
    /\ ReposOf(EventsOf("status")) = cmClients[2].Repos
    /\ Len(EventsOf("report")) = 1

\* C9 as stated: list aggregation, in displayRepositoryList and in the two
\* MultiClientManager methods, queries every client although one failed and
\* returns (displays) the results of all clients that succeeded.
C9_ListIsolation ==
    (cmMode \in ListModes /\ cmPc = "done") =>
        /\ Len(EventsOf("query")) = Len(cmClients)
        /\ cmAllRepos = ConcatOk(cmClients)
        /\ cmMode = "list" => ReposOf(EventsOf("display")) = ConcatOk(cmClients)

\* C10 as stated: with every provider failing, clone --all and
\* clone <group> --all process nothing and return no error, and the
\* single-repository path returns the not-found error.
C10_TotalFailureNoError ==
    (cmMode \in CloneModes /\ cmPc = "done" /\ AllClientsFail) =>
        /\ NoGitCalls
        /\ cmMode \in {"cloneAll", "cloneGroup"} => cmRet = "nil" /\ cmRi = 0
        /\ cmMode = "cloneSingle" => cmRet = "errNotFound"

\* C10, amended: with every provider failing no git call is made; clone --all
\* returns no error, clone <group> --all returns the error "no repositories
\* found in group", and the single-repository path returns the not-found
\* error, as it does whenever no provider yields a match.
C10_TotalFailureByMode ==
    /\ (cmMode \in CloneModes /\ cmPc = "done" /\ AllClientsFail) =>
          /\ NoGitCalls
          /\ cmRi = 0
          /\ cmMode = "cloneAll" => cmRet = "nil"
          /\ cmMode = "cloneGroup" => cmRet = "errNoReposInGroup"
          /\ cmMode = "cloneSingle" => cmRet = "errNotFound"
    /\ (cmMode = "cloneSingle" /\ cmPc = "done") =>
          (cmRet = "errNotFound" <=>
              \A i \in 1..Len(cmClients) : findRepositoryByPath(cmClients[i], cmArg) = Nil)

\* every client of a group clone failed
C10_Witness ==
    /\ cmMode = "cloneGroup"
    /\ cmPc = "done"
    /\ Len(cmClients) >= 2
    /\ AllClientsFail
    /\ cmRet = "errNoReposInGroup"
    /\ Len(EventsOf("query")) = Len(cmClients)

\* C11 as stated: in cloneGroupRepositories a client whose
\* ListRepositoriesInGroup fails is reported with its provider type, and the
\* clients after it are still queried.
C11_GroupFailureReported ==
    cmMode = "cloneGroup" =>
        /\ cmPc # "collect" => Len(EventsOf("query")) = Len(cmClients)
        /\ \A i \in 1..(cmCi - 1) :
             ~cmClients[i].Ok =>
                 \E j \in 1..Len(cmLog) :
                     /\ cmLog[j].ev = "report"
                     /\ cmLog[j].client = i
                     /\ cmLog[j].provider = cmClients[i].Type

C12_IsMatch(repo, query) == repo.FullPath = query \/ HasSuffix(repo.FullPath, query)

\* positions (client, index in its list) of the repositories matching cmArg
C12_Hits ==
    UNION { { <<c, i>> : i \in { idx \in 1..Len(cmClients[c].Repos) :
                                      C12_IsMatch(cmClients[c].Repos[idx], cmArg) } } :
            c \in { d \in 1..Len(cmClients) : cmClients[d].Ok } }

C12_Before(x, y) == x[1] < y[1] \/ (x[1] = y[1] /\ x[2] <= y[2])

C12_First == CHOOSE x \in C12_Hits : \A y \in C12_Hits : C12_Before(x, y)

C12_State ==
    cmMode = "cloneSingle" =>
        LET q == EventsOf("query")
        IN  /\ \A i \in 1..Len(q) : q[i].client = i
            /\ cmPc = "collect" => \A x \in C12_Hits : x[1] > Len(q)
            /\ (cmPc # "collect" /\ C12_Hits # {}) =>
                  /\ Len(q) = C12_First[1]
                  /\ cmFound = cmClients[C12_First[1]].Repos[C12_First[2]]
                  /\ \A j \in 1..Len(cmLog) :
                       cmLog[j].ev \in {"status", "clone", "pull"} => cmLog[j].repo = cmFound
            /\ (cmPc # "collect" /\ C12_Hits = {}) =>
                  /\ Len(q) = Len(cmClients)
                  /\ cmPc = "done"
                  /\ cmRet = "errNotFound"
                  /\ NoGitCalls

\* C12: cloneSingleRepository queries the clients in list order and uses the
\* first repository, by client position and then list position, whose FullPath
\* is the query or ends with it; failing and non-matching clients are passed
\* over, no client is queried once a match is found, and without any match
\* the not-found error is returned and no git status, clone or pull is run.
C12_FirstMatchWins ==
    /\ []C12_State
    /\ [][(cmMode = "cloneSingle" /\ cmFound # Nil) =>
             /\ cmFound' = cmFound
             /\ Len(SelectSeq(cmLog', LAMBDA e : e.ev = "query")) = Len(EventsOf("query"))]_vars

\* two clients hold a match; the first one's repository was used and the
\* second client was never queried
C12_Witness ==
    /\ cmMode = "cloneSingle"
    /\ cmPc = "done"
    /\ Len(cmClients) = 2
    /\ \E x \in C12_Hits : x[1] = 1
    /\ \E x \in C12_Hits : x[1] = 2
    /\ cmClients[1].Type # cmClients[2].Type
    /\ cmFound # Nil
    /\ cmFound.Provider = cmClients[1].Type
    /\ Len(EventsOf("query")) = 1
    /\ ~NoGitCalls

-----------------------------------------------------------------------------
\* findRepositoryByPath (cmd/clone.go) as a function of the client's listing
\* and the requested path.

\* variant: the loop falls through to `return nil, nil`
findRepositoryByPathErr_NoError(client, repoPath) ==
    IF ~client.Ok THEN "errList" ELSE "nil"

\* the error findRepositoryByPath returns beside the repository: the client's
\* listing error, "repository not found" after the loop, nil with a match
findRepositoryByPathErr(client, repoPath) ==
    IF ~client.Ok THEN "errList"
    ELSE IF findRepositoryByPath(client, repoPath) = Nil THEN "repository not found"
    ELSE "nil"

FindSegments == {<<"a">>, <<"b">>}

FindPaths == PathsOf(FindSegments, 1, MaxFindSegs)

FindInit ==
    /\ \E t \in Providers, ok \in BOOLEAN, n \in 0..MaxFindRepos :
         \E ps \in [1..n -> FindPaths] :
             /\ ok \/ n = 0
             /\ fdClient = Client(t, ok, ps)
             /\ IsSortedByFullPath(fdClient.Repos)
    /\ fdPath \in FindPaths
    /\ fdPc = "call"
    /\ fdRepo = Nil
    /\ fdErr = "nil"
    /\ TreeIdle
    /\ LtIdle
    /\ DsIdle
    /\ PgIdle
    /\ CfIdle
    /\ TwIdle
    /\ GlIdle
    /\ PrIdle
    /\ FsIdle
    /\ CmIdle

\* repo, err := findRepositoryByPath(client, repoPath)
FindCall ==
    /\ fdPc = "call"
    /\ fdRepo' = findRepositoryByPath(fdClient, fdPath)
    /\ fdErr' = findRepositoryByPathErr(fdClient, fdPath)
    /\ fdPc' = "returned"
    /\ UNCHANGED <<fdClient, fdPath, nonFdVars>>

FindNext == FindCall

SpecFind == FindInit /\ [][FindNext]_vars

C13_HasExact ==
    fdClient.Ok /\ \E i \in 1..Len(fdClient.Repos) : fdClient.Repos[i].FullPath = fdPath

C13_HasMatch ==
    fdClient.Ok /\ \E i \in 1..Len(fdClient.Repos) :
        fdClient.Repos[i].FullPath = fdPath \/ HasSuffix(fdClient.Repos[i].FullPath, fdPath)

C13_NotFoundPart ==
    (fdPc = "returned" /\ fdClient.Ok /\ ~C13_HasMatch) =>
        fdRepo = Nil /\ fdErr = "repository not found"

\* C13 as stated: with a repository of exactly the requested FullPath in the
\* listing, findRepositoryByPath returns, without error, a repository whose
\* FullPath is the requested path; with no FullPath equal to the path or
\* ending with it, it returns nil and "repository not found".
C13_ExactMatchReturned ==
    /\ (fdPc = "returned" /\ C13_HasExact) =>
          fdErr = "nil" /\ fdRepo # Nil /\ fdRepo.FullPath = fdPath
    /\ C13_NotFoundPart

\* C13, amended: findRepositoryByPath returns, without error, the first
\* repository of the listing whose FullPath is the requested path or ends
\* with it, so the repository of exactly that FullPath is returned when no
\* repository before it ends with the path; with no such repository it
\* returns nil and "repository not found".
C13_FirstMatchReturned ==
    /\ (fdPc = "returned" /\ C13_HasMatch) =>
          LET first == CHOOSE i \in 1..Len(fdClient.Repos) :
                           /\ C12_IsMatch(fdClient.Repos[i], fdPath)
                           /\ \A j \in 1..(i - 1) : ~C12_IsMatch(fdClient.Repos[j], fdPath)
          IN  /\ fdErr = "nil"
              /\ fdRepo = fdClient.Repos[first]
              /\ \A e \in 1..Len(fdClient.Repos) :
                   ( /\ fdClient.Repos[e].FullPath = fdPath
                     /\ \A j \in 1..(e - 1) : ~HasSuffix(fdClient.Repos[j].FullPath, fdPath) )
                       => fdRepo.FullPath = fdPath
    /\ C13_NotFoundPart

\* the listing holds the exact path behind a path that ends with it, and the
\* earlier repository was returned
C13_Witness ==
    /\ fdPc = "returned"
    /\ C13_HasExact
    /\ fdErr = "nil"
    /\ fdRepo # Nil
    /\ fdRepo.FullPath # fdPath
    /\ HasSuffix(fdRepo.FullPath, fdPath)

-----------------------------------------------------------------------------
\* a clone of the repository lies at the legacy path join(BaseDir, FullPath)
C14_LegacyCloned(repo) == PathJoin(<<BaseDir, repo.FullPath, DotGit>>) \in fs

\* C14 as stated: a repository cloned at the legacy path and absent at the
\* provider path is reported as cloned by the list command, and is treated as
\* already cloned by the clone commands, which do not clone it again.
C14_LegacyCloneRecognised ==
    \A j \in 1..Len(cmLog) :
        (cmLog[j].ev \in {"status", "clone"} /\ C14_LegacyCloned(cmLog[j].repo)) =>
            /\ ~(cmLog[j].ev = "status" /\ cmLog[j].out = "absent")
            /\ ~(cmLog[j].ev = "clone" /\ cmLog[j - 1].out = "absent")

\* C15 as stated: with neither --ssh nor --https passed git clone is given
\* the repository's HTTPS CloneURL, and the SSHCloneURL is given only when
\* --ssh was passed.
C15_DefaultIsHttps ==
    \A j \in 1..Len(cmLog) :
        cmLog[j].ev = "clone" =>
            /\ (~cmSsh /\ ~cmHttps) => cmLog[j].url = "CloneURL"
            /\ cmLog[j].url = "SSHCloneURL" => cmSsh

-----------------------------------------------------------------------------
\* The GitLab tree builder (gitlab/client.go BuildRepositoryTree) as a
\* function of the whole repository list, and the walk of the tree display
\* (displayRepositoryTree, displayGroup).

RECURSIVE BuildFrom(_, _)
BuildFrom(t, list) ==
    IF list = <<>> THEN t
    ELSE BuildFrom(GitLabAddRepo(t, Head(list)), Tail(list))

\* variant: a repository without a group replaces the root list
BuildRepositoryTree_RootReplaced(list) ==
    LET rootless == SelectSeq(list, LAMBDA r : Len(Split(r.FullPath)) > 1)
        roots    == SelectSeq(list, LAMBDA r : Len(Split(r.FullPath)) = 1)
    IN  [BuildFrom(EmptyTree, rootless) EXCEPT
            !.Repositories = IF roots = <<>> THEN <<>> ELSE <<roots[Len(roots)]>>]

\* the loop of BuildRepositoryTree over `repos`, from the empty tree
BuildRepositoryTree(list) == BuildFrom(EmptyTree, list)

RECURSIVE WalkGroups(_)
\* the orders in which displayGroup, called for every entry of a map of
\* groups, visits repositories: a group's own repositories, then its
\* subgroups; `range` over a map takes the entries in any order
WalkGroups(groups) ==
    IF DOMAIN groups = {} THEN {<<>>}
    ELSE UNION { { groups[g].Repositories \o sub \o rest :
                     sub \in WalkGroups(groups[g].SubGroups),
                     rest \in WalkGroups([x \in (DOMAIN groups) \ {g} |-> groups[x]]) } :
                 g \in DOMAIN groups }

\* variant: the root repositories are left out
WalkTree_GroupsOnly(t) == WalkGroups(t.Groups)

\* displayRepositoryTree without a filter: the root repositories, then the
\* groups
WalkTree(t) == { t.Repositories \o w : w \in WalkGroups(t.Groups) }

LawSegments == {<<"a">>, <<"b">>}

LawPaths == PathsOf(LawSegments, 1, MaxSegments)

Reorderings(n) == { f \in [1..n -> 1..n] : \A i, j \in 1..n : f[i] = f[j] => i = j }

TwInit ==
    /\ \E n \in 0..MaxTreeRepos :
         /\ twRepos \in [1..n -> { Repository(p, "gitlab") : p \in LawPaths }]
         /\ IsSortedByFullPath(twRepos)
         /\ \E f \in Reorderings(n) : twPermuted = [i \in 1..n |-> twRepos[f[i]]]
    /\ twPc = "start"
    /\ twTree = Nil
    /\ twOther = Nil
    /\ twFlat = <<>>
    /\ twRebuilt = Nil
    /\ TreeIdle
    /\ LtIdle
    /\ DsIdle
    /\ PgIdle
    /\ CfIdle
    /\ FdIdle
    /\ GlIdle
    /\ PrIdle
    /\ FsIdle
    /\ CmIdle

\* the builder runs on the list and on its permutation
TwBuild ==
    /\ twPc = "start"
    /\ twTree' = BuildRepositoryTree(twRepos)
    /\ twOther' = BuildRepositoryTree(twPermuted)
    /\ twPc' = "built"
    /\ UNCHANGED <<twRepos, twPermuted, twFlat, twRebuilt, nonTwVars>>

\* the tree is walked
TwWalk ==
    /\ twPc = "built"
    /\ twFlat' \in WalkTree(twTree)
    /\ twPc' = "flat"
    /\ UNCHANGED <<twRepos, twPermuted, twTree, twOther, twRebuilt, nonTwVars>>

\* the builder runs on the walked list
TwRebuild ==
    /\ twPc = "flat"
    /\ twRebuilt' = BuildRepositoryTree(twFlat)
    /\ twPc' = "rebuilt"
    /\ UNCHANGED <<twRepos, twPermuted, twTree, twOther, twFlat, nonTwVars>>

TwNext ==
    \/ TwBuild
    \/ TwWalk
    \/ TwRebuild

SpecTreeLaws == TwInit /\ [][TwNext]_vars

\* the repositories of a list as a multiset
C16_Bag(list) == [r \in Range(list) |-> Count(list, r)]

C16_SameNodes(t, u) ==
    /\ NodePaths(t.Groups) = NodePaths(u.Groups)
    /\ \A kp \in NodePaths(t.Groups) :
         /\ NodeAt(t.Groups, kp).Group = NodeAt(u.Groups, kp).Group
         /\ C16_Bag(NodeAt(t.Groups, kp).Repositories) = C16_Bag(NodeAt(u.Groups, kp).Repositories)
    /\ C16_Bag(t.Repositories) = C16_Bag(u.Repositories)

\* C16: the GitLab tree built from a repository list and the tree built from
\* any permutation of it have the same group nodes, with the same Group
\* fields, and the same multiset of repositories at the root and at every
\* node.
C16_OrderIndependent ==
    twPc \in {"built", "flat", "rebuilt"} => C16_SameNodes(twTree, twOther)

\* two repositories of one group were given in both orders, and the two
\* trees differ in that node's list only
C16_Witness ==
    /\ twPc = "built"
    /\ twPermuted # twRepos
    /\ twTree # twOther
    /\ \E kp \in NodePaths(twTree.Groups) : Len(kp) = 2 /\ Len(NodeAt(twTree.Groups, kp).Repositories) = 2
    /\ C16_SameNodes(twTree, twOther)

\* C17: walking the tree built from a list, root repositories and then every
\* group node, and building a tree from the walked list gives the same tree:
\* the same nodes, Group fields and repositories per node.
C17_RoundTrip ==
    twPc = "rebuilt" =>
        /\ twRebuilt = twTree
        /\ C16_Bag(twFlat) = C16_Bag(twRepos)

\* a tree with a root repository and a nested group was walked in an order
\* other than the list's and rebuilt
C17_Witness ==
    /\ twPc = "rebuilt"
    /\ twFlat # twRepos
    /\ twTree.Repositories # <<>>
    /\ \E kp \in NodePaths(twTree.Groups) : Len(kp) = 2
    /\ twRebuilt = twTree

-----------------------------------------------------------------------------
C18_IsFailure(e) ==
    \/ e.ev = "status" /\ e.out = "err"
    \/ e.ev = "clone" /\ e.out # "ok"
    \/ e.ev = "pull" /\ e.out = "err"

C18_State ==
    cmMode \in {"cloneAll", "cloneGroup"} =>
        /\ ReposOf(EventsOf("status")) = SubSeq(cmAllRepos, 1, cmRi)
        /\ cmSuccessful + cmFailed = cmRi
        /\ cmFailed = Len(SelectSeq(cmLog, C18_IsFailure))
        /\ cmPc = "process" => cmRi < Len(cmAllRepos) /\ cmRet = "running"
        /\ (cmPc = "done" /\ cmAllRepos # <<>>) =>
              /\ cmRi = Len(cmAllRepos)
              /\ cmSuccessful + cmFailed = Len(cmAllRepos)
              /\ cmRet = "nil"

\* C18: in cloneAllRepositories and cloneGroupRepositories every collected
\* repository is processed once, in collection order; a failed status check,
\* clone or pull adds one to failed and the next repository is processed; at
\* the end of the loop successful + failed is the number of collected
\* repositories and nil is returned, whatever failed is.
C18_BatchNeverAborts ==
    /\ []C18_State
    /\ [][(cmMode \in {"cloneAll", "cloneGroup"} /\ cmPc = "process") =>
             /\ cmRi' = cmRi + 1
             /\ cmAllRepos' = cmAllRepos
             /\ cmPc' = IF cmRi' = Len(cmAllRepos) THEN "done" ELSE "process"]_vars

\* a repository failed, the ones after it were processed and nil was
\* returned
C18_Witness ==
    /\ cmMode \in {"cloneAll", "cloneGroup"}
    /\ cmPc = "done"
    /\ Len(cmAllRepos) >= 2
    /\ \E i, j \in 1..Len(cmLog) :
         i < j /\ C18_IsFailure(cmLog[i]) /\ cmLog[j].ev = "status"
    /\ cmFailed >= 1
    /\ cmSuccessful >= 1
    /\ cmRi = Len(cmAllRepos)
    /\ cmRet = "nil"

-----------------------------------------------------------------------------
\* Package config (internal/config/config.go): Load and AddProvider over the
\* file ~/.gitstuff.yaml.  Strings are opaque values, "" the empty string.

ProviderConfig(name, type, url, token, insecure, group) ==
    [Name |-> name, Type |-> type, URL |-> url, Token |-> token,
     Insecure |-> insecure, Group |-> group]

Absent == [kind |-> "absent"]

\* a file yaml.Unmarshal rejects
Unparseable == [kind |-> "unparseable"]

\* a YAML file by the keys the package reads: providers, local.base_dir, the
\* legacy gitlab section and the legacy local.basedir
Yaml(providers, baseDir, gitlab, legacyBaseDir) ==
    [kind |-> "yaml", providers |-> providers, base_dir |-> baseDir,
     gitlab |-> gitlab, basedir |-> legacyBaseDir]

NoGitLab == [URL |-> "", Token |-> "", Insecure |-> FALSE, Group |-> ""]

\* a file cut to zero length
EmptyFile == Yaml(<<>>, "", NoGitLab, "")

\* yaml.Unmarshal(data, &config)
Unmarshal(file) == [Providers |-> file.providers, BaseDir |-> file.base_dir]

\* yaml.Unmarshal(data, &legacyConfig)
UnmarshalLegacy(file) == [GitLab |-> file.gitlab, BaseDir |-> file.basedir]

\* yaml.Marshal(config): the keys of Config and nothing else
Marshal(config) == Yaml(config.Providers, config.BaseDir, NoGitLab, "")

\* os.WriteFile either writes, or fails before touching the file, or fails
\* after truncating it
WriteOutcomes == {"ok", "writeFails", "writeTruncates"}

\* saveConfig(config, configPath): the file afterwards
saveConfig(file, config, outcome) ==
    IF outcome = "ok" THEN Marshal(config)
    ELSE IF outcome = "writeFails" THEN file
    ELSE EmptyFile

\* filepath.Join(home, "gitstuff-repos")
DefaultBaseDir == "home/gitstuff-repos"

\* the first provider the validation loop of Load rejects, 0 when none
FirstInvalid(providers) ==
    LET bad == { i \in 1..Len(providers) :
                   \/ providers[i].URL = "" \/ providers[i].Token = ""
                   \/ providers[i].Type \notin {"gitlab", "github"} }
    IN  IF bad = {} THEN 0 ELSE CHOOSE i \in bad : \A j \in bad : i <= j

\* variant: the migration copies the providers but not local.basedir
LoadMigrate_BaseDirDropped(file) ==
    LET config == Unmarshal(file)
        legacy == UnmarshalLegacy(file)
    IN  IF config.Providers = <<>> /\ legacy.GitLab.URL # ""
        THEN [migrated |-> TRUE,
              config |-> [Providers |-> <<ProviderConfig("gitlab", "gitlab", legacy.GitLab.URL,
                                             legacy.GitLab.Token, legacy.GitLab.Insecure,
                                             legacy.GitLab.Group)>>,
                          BaseDir |-> config.BaseDir]]
        ELSE [migrated |-> FALSE, config |-> config]

\* the Config of Load after the migration step (lines 61-89); migrated tells
\* whether saveConfig is called
LoadMigrate(file) ==
    LET config == Unmarshal(file)
        legacy == UnmarshalLegacy(file)
    IN  IF config.Providers = <<>> /\ legacy.GitLab.URL # ""
        THEN [migrated |-> TRUE,
              config |-> [Providers |-> <<ProviderConfig("gitlab", "gitlab", legacy.GitLab.URL,
                                             legacy.GitLab.Token, legacy.GitLab.Insecure,
                                             legacy.GitLab.Group)>>,
                          BaseDir |-> legacy.BaseDir]]
        ELSE [migrated |-> FALSE, config |-> config]

\* variant: the validation loop is skipped
LoadValidate_Skipped(config) ==
    IF config.Providers = <<>> THEN [config |-> Nil, err |-> "errNoProviders"]
    ELSE [config |-> [config EXCEPT !.BaseDir = IF @ = "" THEN DefaultBaseDir ELSE @],
          err |-> "nil"]

\* Load from line 91 on: the checks on the Config and the BaseDir default
LoadValidate(config) ==
    LET bad == FirstInvalid(config.Providers)
    IN  IF config.Providers = <<>> THEN [config |-> Nil, err |-> "errNoProviders"]
        ELSE IF bad # 0 /\ (config.Providers[bad].URL = "" \/ config.Providers[bad].Token = "")
        THEN [config |-> Nil, err |-> "errMissingUrlOrToken"]
        ELSE IF bad # 0 THEN [config |-> Nil, err |-> "errUnsupportedType"]
        ELSE [config |-> [config EXCEPT !.BaseDir = IF @ = "" THEN DefaultBaseDir ELSE @],
              err |-> "nil"]

\* config.Load(): the Config and error returned and the file afterwards
Load(file, homeOk, outcome) ==
    IF ~homeOk THEN [config |-> Nil, err |-> "errHome", file |-> file]
    ELSE IF file = Absent THEN [config |-> Nil, err |-> "errNotFound", file |-> file]
    ELSE IF file = Unparseable THEN [config |-> Nil, err |-> "errUnmarshal", file |-> file]
    ELSE LET m     == LoadMigrate(file)
             saved == IF m.migrated THEN saveConfig(file, m.config, outcome) ELSE file
             v     == LoadValidate(m.config)
         IN  IF m.migrated /\ outcome # "ok"
             THEN [config |-> Nil, err |-> "errSave", file |-> saved]
             ELSE [config |-> v.config, err |-> v.err, file |-> saved]

\* the checks of AddProvider on its arguments (lines 117-132)
AddProviderArgErr(a) ==
    IF a.name = "" THEN "errNameRequired"
    ELSE IF a.type = "" THEN "errTypeRequired"
    ELSE IF a.type \notin {"gitlab", "github"} THEN "errUnsupportedType"
    ELSE IF a.url = "" THEN "errUrlRequired"
    ELSE IF a.token = "" THEN "errTokenRequired"
    ELSE "nil"

\* the index of the first provider named name, 0 when none (the loop at 157)
IndexOfName(providers, name) ==
    LET hits == { i \in 1..Len(providers) : providers[i].Name = name }
    IN  IF hits = {} THEN 0 ELSE CHOOSE i \in hits : \A j \in hits : i <= j

\* variant: the provider is appended whether or not the name exists
Upsert_AlwaysAppend(config, a) ==
    [config EXCEPT !.Providers = Append(@, ProviderConfig(a.name, a.type, a.url, a.token,
                                                          a.insecure, a.group))]

\* lines 156-180: replace the provider of that name in place, else append
Upsert(config, a) ==
    LET p  == ProviderConfig(a.name, a.type, a.url, a.token, a.insecure, a.group)
        at == IndexOfName(config.Providers, a.name)
    IN  IF at # 0 THEN [config EXCEPT !.Providers[at] = p]
        ELSE [config EXCEPT !.Providers = Append(@, p)]

\* lines 148-154: BaseDir is set only when the file left it empty
WithBaseDir(config, baseDir) ==
    IF config.BaseDir # "" THEN config
    ELSE [config EXCEPT !.BaseDir = IF baseDir = "" THEN DefaultBaseDir ELSE baseDir]

\* config.AddProvider(...): the error returned and the file afterwards
AddProvider(file, a, homeOk, outcome) ==
    IF AddProviderArgErr(a) # "nil" THEN [err |-> AddProviderArgErr(a), file |-> file]
    ELSE IF ~homeOk THEN [err |-> "errHome", file |-> file]
    ELSE IF file = Unparseable THEN [err |-> "errUnmarshal", file |-> file]
    ELSE LET read   == IF file = Absent THEN [Providers |-> <<>>, BaseDir |-> ""]
                       ELSE Unmarshal(file)
             config == Upsert(WithBaseDir(read, a.baseDir), a)
         IN  [err |-> IF outcome = "ok" THEN "nil" ELSE "errWrite",
              file |-> saveConfig(file, config, outcome)]

\* provider entries a hand-written file may hold: two valid ones, and one for
\* each check of Load's validation loop
FileProviders ==
    { ProviderConfig("n1", "gitlab", "u1", "t1", FALSE, ""),
      ProviderConfig("n2", "github", "u1", "t1", FALSE, "g1"),
      ProviderConfig("n1", "gitlab", "u1", "", FALSE, ""),
      ProviderConfig("n3", "svn", "u1", "t1", FALSE, ""),
      ProviderConfig("n2", "github", "", "t1", TRUE, "") }

ProviderLists == UNION { [1..n -> FileProviders] : n \in 0..MaxProviders }

NewFormatFiles ==
    { Yaml(ps, d, NoGitLab, "") : ps \in ProviderLists, d \in {"", "d1"} }

\* files of the single-provider format: a gitlab section and local.basedir
LegacyFiles ==
    { Yaml(<<>>, "", [URL |-> "u0", Token |-> t, Insecure |-> TRUE, Group |-> "g0"], d) :
        t \in {"", "t0"}, d \in {"", "d0"} }

InitialFiles == {Absent, Unparseable} \cup NewFormatFiles \cup LegacyFiles

AddArgs(name, type, url, token, baseDir) ==
    [name |-> name, type |-> type, url |-> url, token |-> token, baseDir |-> baseDir,
     insecure |-> TRUE, group |-> "g2"]

\* argument lists of AddProvider: accepted ones, and one for each check
AddProviderCalls ==
    { AddArgs(n, "github", "u2", "t2", d) : n \in {"n1", "n2"}, d \in {"", "d2"} }
    \cup { AddArgs("", "github", "u2", "t2", ""), AddArgs("n1", "", "u2", "t2", ""),
           AddArgs("n1", "svn", "u2", "t2", ""), AddArgs("n1", "gitlab", "", "t2", ""),
           AddArgs("n1", "gitlab", "u2", "", "") }

CfInit ==
    /\ cfFile \in InitialFiles
    /\ cfCall = "idle" /\ cfArgs = Nil /\ cfErr = "nil" /\ cfConfig = Nil
    /\ cfCalls = 0
    /\ cfPure = (cfFile = Absent)
    /\ TreeIdle
    /\ LtIdle
    /\ DsIdle
    /\ PgIdle
    /\ GlIdle
    /\ FsIdle
    /\ PrIdle
    /\ CmIdle
    /\ FdIdle
    /\ TwIdle

\* one call of config.Load()
CfLoad ==
    /\ cfCalls < MaxCalls
    /\ \E homeOk \in BOOLEAN, outcome \in WriteOutcomes :
         LET r == Load(cfFile, homeOk, outcome)
         IN  /\ cfFile' = r.file
             /\ cfErr' = r.err
             /\ cfConfig' = r.config
    /\ cfCall' = "load"
    /\ cfArgs' = Nil
    /\ cfCalls' = cfCalls + 1
    /\ UNCHANGED <<cfPure, nonCfVars>>

\* one call of config.AddProvider(...)
CfAddProvider ==
    /\ cfCalls < MaxCalls
    /\ \E a \in AddProviderCalls, homeOk \in BOOLEAN, outcome \in WriteOutcomes :
         LET r == AddProvider(cfFile, a, homeOk, outcome)
         IN  /\ cfFile' = r.file
             /\ cfErr' = r.err
             /\ cfArgs' = a
             /\ cfPure' = (cfPure /\ r.err = "nil")
    /\ cfCall' = "add"
    /\ cfConfig' = Nil
    /\ cfCalls' = cfCalls + 1
    /\ UNCHANGED nonCfVars

CfNext == CfLoad \/ CfAddProvider

SpecConfig == CfInit /\ [][CfNext]_vars

-----------------------------------------------------------------------------
\* C19: config.Load returns only validated configurations.  Whenever Load
\* returns without error the Config has at least one provider, every provider
\* has a non-empty URL, a non-empty Token and Type gitlab or github, and
\* BaseDir is non-empty; whenever it returns an error it returns no Config.
\* A file that sets providers and leaves base_dir unset loads with BaseDir
\* <home>/gitstuff-repos, one that sets base_dir loads with that value.
C19_Validated(config) ==
    /\ Len(config.Providers) >= 1
    /\ \A i \in 1..Len(config.Providers) :
         /\ config.Providers[i].URL # ""
         /\ config.Providers[i].Token # ""
         /\ config.Providers[i].Type \in {"gitlab", "github"}
    /\ config.BaseDir # ""

C19_State ==
    cfCall = "load" =>
        IF cfErr = "nil" THEN cfConfig # Nil /\ C19_Validated(cfConfig)
        ELSE cfConfig = Nil

C19_BaseDirDefaulted ==
    (/\ cfCall' = "load" /\ cfErr' = "nil"
     /\ cfFile.kind = "yaml" /\ cfFile.providers # <<>>)
        => cfConfig'.BaseDir = IF cfFile.base_dir = "" THEN DefaultBaseDir
                               ELSE cfFile.base_dir

C19_LoadReturnsValidated == []C19_State /\ [][C19_BaseDirDefaulted]_vars

\* C19 witness: Load has returned a Config of two providers whose BaseDir is
\* the default
C19_Witness ==
    /\ cfCall = "load" /\ cfErr = "nil" /\ cfConfig # Nil
    /\ Len(cfConfig.Providers) = 2
    /\ cfConfig.BaseDir = DefaultBaseDir

\* C20: config.AddProvider is an upsert keyed by provider name.  On a
\* new-format file (or none) a successful call replaces in place the first
\* provider of that name, count and positions unchanged, or appends one
\* provider at the end when there is none; every other provider is unchanged;
\* BaseDir is unchanged when it was non-empty and is otherwise the baseDir
\* argument or the default.  From no config file, while every AddProvider call
\* succeeds, the names in the file are pairwise distinct and BaseDir is
\* non-empty and never changes after the first call.
C20_NewFormat(file) ==
    \/ file = Absent
    \/ file.kind = "yaml" /\ file.gitlab = NoGitLab /\ file.basedir = ""

C20_Providers(file) == IF file = Absent THEN <<>> ELSE file.providers

C20_BaseDir(file) == IF file = Absent THEN "" ELSE file.base_dir

C20_SuccessfulAdd ==
    /\ cfCall' = "add" /\ cfErr' = "nil" /\ cfCalls' = cfCalls + 1
    /\ C20_NewFormat(cfFile)

C20_Upsert ==
    LET old   == C20_Providers(cfFile)
        new   == cfFile'.providers
        given == ProviderConfig(cfArgs'.name, cfArgs'.type, cfArgs'.url, cfArgs'.token,
                                cfArgs'.insecure, cfArgs'.group)
    IN  /\ cfFile'.kind = "yaml" /\ C20_NewFormat(cfFile')
        /\ IF \E i \in 1..Len(old) : old[i].Name = given.Name
           THEN /\ Len(new) = Len(old)
                /\ \E i \in 1..Len(old) :
                     /\ old[i].Name = given.Name
                     /\ \A j \in 1..(i - 1) : old[j].Name # given.Name
                     /\ new[i] = given
                     /\ \A j \in 1..Len(old) : j # i => new[j] = old[j]
           ELSE new = Append(old, given)
        /\ cfFile'.base_dir =
             IF C20_BaseDir(cfFile) # "" THEN C20_BaseDir(cfFile)
             ELSE IF cfArgs'.baseDir = "" THEN DefaultBaseDir ELSE cfArgs'.baseDir

C20_FromNoFile ==
    (cfPure /\ cfFile # Absent) =>
        /\ cfFile.kind = "yaml"
        /\ \A i, j \in 1..Len(cfFile.providers) :
             i # j => cfFile.providers[i].Name # cfFile.providers[j].Name
        /\ cfFile.base_dir # ""

C20_BaseDirFixed ==
    (cfPure /\ cfFile # Absent /\ cfPure') => cfFile'.base_dir = cfFile.base_dir

C20_AddProviderIsUpsert ==
    /\ []C20_FromNoFile
    /\ [][(C20_SuccessfulAdd => C20_Upsert) /\ C20_BaseDirFixed]_vars

\* C20 witness: from no file, two successful calls with the same name and
\* different baseDir arguments have left one provider and the first BaseDir
C20_Witness ==
    /\ cfPure /\ cfCalls = 2 /\ cfCall = "add" /\ cfErr = "nil"
    /\ Len(cfFile.providers) = 1
    /\ cfArgs.baseDir = "d2"
    /\ cfFile.base_dir = DefaultBaseDir

\* C21: legacy migration is correct and idempotent.  Load on a legacy file
\* (gitlab section with url and token, no providers list) that returns without
\* error returns exactly one provider named gitlab of type gitlab with URL,
\* Token, Insecure and Group of the legacy section, BaseDir the legacy basedir
\* (the default when that is empty), and leaves the file in the new format
\* holding that provider and basedir.  A Load that follows a successful Load
\* and finds the home directory returns the same Config without error and
\* leaves the file as it is.
C21_IsLegacy(file) ==
    /\ file.kind = "yaml" /\ file.providers = <<>>
    /\ file.gitlab.URL # "" /\ file.gitlab.Token # ""

C21_Migrated(file) ==
    ProviderConfig("gitlab", "gitlab", file.gitlab.URL, file.gitlab.Token,
                   file.gitlab.Insecure, file.gitlab.Group)

C21_Migrates ==
    (cfCall' = "load" /\ cfErr' = "nil" /\ C21_IsLegacy(cfFile)) =>
        /\ cfConfig'.Providers = <<C21_Migrated(cfFile)>>
        /\ cfConfig'.BaseDir = IF cfFile.basedir = "" THEN DefaultBaseDir ELSE cfFile.basedir
        /\ cfFile'.kind = "yaml"
        /\ cfFile'.providers = <<C21_Migrated(cfFile)>>
        /\ cfFile'.base_dir = cfFile.basedir
        /\ cfFile'.gitlab = NoGitLab /\ cfFile'.basedir = ""

C21_SecondLoad ==
    (cfCall = "load" /\ cfErr = "nil" /\ cfCall' = "load" /\ cfErr' # "errHome") =>
        /\ cfErr' = "nil"
        /\ cfConfig' = cfConfig
        /\ cfFile' = cfFile

C21_MigrationIdempotent == [][C21_Migrates /\ C21_SecondLoad]_vars

\* C21 witness: a second Load has returned the provider migrated from the
\* legacy section, with the legacy basedir, from the rewritten file
C21_Witness ==
    /\ cfCall = "load" /\ cfErr = "nil" /\ cfCalls = 2 /\ cfConfig # Nil
    /\ cfConfig.Providers = <<ProviderConfig("gitlab", "gitlab", "u0", "t0", TRUE, "g0")>>
    /\ cfConfig.BaseDir = "d0"
    /\ cfFile = Yaml(cfConfig.Providers, "d0", NoGitLab, "")

\* C30: AddProvider never loses an existing connection.  If Load on the file
\* would return a provider named N, the gitlab provider derived from a legacy
\* file included, then after a successful AddProvider with another name Load
\* on the file still returns a provider named N with the same URL, Token,
\* Insecure and Group.
C30_Loaded(file) == Load(file, TRUE, "ok")

C30_Kept(before, after) ==
    \A i \in 1..Len(before.Providers) :
        before.Providers[i].Name # cfArgs'.name =>
            \E j \in 1..Len(after.Providers) : after.Providers[j] = before.Providers[i]

C30_Step ==
    (/\ cfCall' = "add" /\ cfErr' = "nil" /\ cfCalls' = cfCalls + 1
     /\ C30_Loaded(cfFile).err = "nil")
        => /\ C30_Loaded(cfFile').err = "nil"
           /\ C30_Kept(C30_Loaded(cfFile).config, C30_Loaded(cfFile').config)

C30_ConnectionsKept == [][C30_Step]_vars

-----------------------------------------------------------------------------
\* The page loop shared by gitlab ListRepositoriesInGroup (client.go 95-120),
\* gitlab listRepositoriesInSpecificGroup (268-294), github ListAllRepositories
\* (127-154) and github ListRepositoriesInGroup (174-197).  The API is free in
\* what it answers: any entries, any NextPage, or an error.

ListingKinds == {"gitlabAll", "gitlabGroup", "githubAll", "githubOrg"}

ProviderOfKind(kind) == IF kind \in {"gitlabAll", "gitlabGroup"} THEN "gitlab" ELSE "github"

\* opts.Page before the first request: the gitlab options set Page: 1, the
\* github options leave it at the zero value
FirstPage(kind) == IF ProviderOfKind(kind) = "gitlab" THEN 1 ELSE 0

\* the groupPath argument of the gitlab group listing
PgGroupPath == <<"a">>

\* an entry of a page: the path (PathWithNamespace, GetFullName) and what the
\* github list-all filter reads, GetPrivate() and GetPermissions()["pull"]
Entry(path, private, pull) == [path |-> path, private |-> private, pull |-> pull]

\* "a/b" lies under the group "a", "b" does not; "" is an entry without name
Entries ==
    { Entry(<<"a", Slash, "b">>, FALSE, FALSE), Entry(<<"b">>, TRUE, TRUE),
      Entry(<<"a">>, TRUE, FALSE), Entry(<<>>, FALSE, FALSE) }

\* the entries of one page when `served` entries were served before
Pages(served) == StringsOver(Entries, 0, MaxEntries - served)

\* variant: every entry of the page is kept whatever the listing
KeepEntry_All(kind, e) == TRUE

\* the condition under which the loop over a page appends the entry
KeepEntry(kind, e) ==
    CASE kind = "gitlabGroup" -> GroupMatch(e.path, PgGroupPath)
      [] kind = "githubAll"   -> ~(e.path = <<>> \/ (e.private /\ ~e.pull))
      [] OTHER                -> TRUE

RECURSIVE AppendPage(_, _, _)
\* the loop `for _, project := range projects` / `for _, repo := range repos`
AppendPage(kind, allRepos, entries) ==
    IF entries = <<>> THEN allRepos
    ELSE AppendPage(kind,
                    IF KeepEntry(kind, Head(entries))
                    THEN Append(allRepos, Repository(Head(entries).path, ProviderOfKind(kind)))
                    ELSE allRepos,
                    Tail(entries))

PgInit ==
    /\ pgKind \in ListingKinds
    /\ pgPc = IF pgKind = "gitlabGroup" THEN "getGroup" ELSE "call"
    /\ pgPage = FirstPage(pgKind)
    /\ pgRequested = 0
    /\ pgResp = Nil
    /\ pgFetched = <<>>
    /\ pgAllRepos = <<>>
    /\ pgResult = Nil
    /\ TreeIdle
    /\ LtIdle
    /\ DsIdle
    /\ GlIdle
    /\ FsIdle
    /\ PrIdle
    /\ CmIdle
    /\ FdIdle
    /\ TwIdle
    /\ CfIdle

\* c.client.Groups.GetGroup(groupPath, nil) answers
PgGetGroupOk ==
    /\ pgPc = "getGroup"
    /\ pgPc' = "call"
    /\ UNCHANGED <<pgKind, pgPage, pgRequested, pgResp, pgFetched, pgAllRepos, pgResult,
                   nonPgVars>>

\* GetGroup or the page request returns an error: return nil, err
PgCallFails ==
    /\ pgPc \in {"getGroup", "call"}
    /\ pgPc' = "error"
    /\ pgRequested' = IF pgPc = "call" THEN pgPage ELSE pgRequested
    /\ pgResult' = Nil
    /\ UNCHANGED <<pgKind, pgPage, pgResp, pgFetched, pgAllRepos, nonPgVars>>

\* the page request for opts.Page returns entries and resp.NextPage
PgCallReturns ==
    /\ pgPc = "call"
    /\ \E entries \in Pages(Len(pgFetched)), next \in 0..MaxPageNo :
         /\ pgResp' = [entries |-> entries, NextPage |-> next]
         /\ pgFetched' = pgFetched \o entries
    /\ pgRequested' = pgPage
    /\ pgPc' = "gotPage"
    /\ UNCHANGED <<pgKind, pgPage, pgAllRepos, pgResult, nonPgVars>>

\* the rest of the loop body: append the page, then break, sort and return
\* when NextPage is 0, else set opts.Page and go round
PgProcess ==
    /\ pgPc = "gotPage"
    /\ pgAllRepos' = AppendPage(pgKind, pgAllRepos, pgResp.entries)
    /\ IF pgResp.NextPage = 0
       THEN /\ pgResult' = SortByFullPath(pgAllRepos')
            /\ pgPc' = "done"
            /\ UNCHANGED pgPage
       ELSE /\ pgPage' = pgResp.NextPage
            /\ pgPc' = "call"
            /\ UNCHANGED pgResult
    /\ UNCHANGED <<pgKind, pgRequested, pgResp, pgFetched, nonPgVars>>

PgNext == PgGetGroupOk \/ PgCallFails \/ PgCallReturns \/ PgProcess

SpecPagination == PgInit /\ [][PgNext]_vars

\* the program takes its own steps; the API need not ever answer
SpecPaginationLive == SpecPagination /\ WF_vars(PgProcess)

\* C22 as stated: the returned list holds the repositories of every fetched
\* page, the github list-all filter being the only exception.
C22_KeptAsStated(kind, e) ==
    kind = "githubAll" => (e.path # <<>> /\ ~(e.private /\ ~e.pull))

C22_Returned(path) == Count(pgResult, Repository(path, ProviderOfKind(pgKind)))

C22_EveryFetchedReturned ==
    pgPc = "done" =>
        \A e \in Entries :
            C22_Returned(e.path) =
                Cardinality({ i \in 1..Len(pgFetched) :
                                pgFetched[i].path = e.path /\ C22_KeptAsStated(pgKind, pgFetched[i]) })

\* C22: pagination of a provider listing.  Every request carries the page the
\* options start with (first request) or the NextPage of the response before
\* it, which was not 0; a list is returned only after a response with
\* NextPage = 0, and once such a response has arrived a list is returned; the
\* list is sorted ascending by FullPath and holds one repository for every
\* entry of every fetched page, except the entries the github list-all filter
\* skips (empty name, private without pull permission) and, in the gitlab
\* group listing, the entries whose path is neither the group path nor under
\* it; after a failed request nothing is returned.
C22_Kept(kind, e) ==
    /\ C22_KeptAsStated(kind, e)
    /\ kind = "gitlabGroup" =>
         (e.path = PgGroupPath \/ HasPrefix(e.path, PgGroupPath \o <<Slash>>))

C22_State ==
    /\ pgPc = "done" =>
         /\ pgResp # Nil /\ pgResp.NextPage = 0
         /\ IsSortedByFullPath(pgResult)
         /\ \A e \in Entries :
              C22_Returned(e.path) =
                  Cardinality({ i \in 1..Len(pgFetched) :
                                  pgFetched[i].path = e.path /\ C22_Kept(pgKind, pgFetched[i]) })
         /\ Len(pgResult) =
              Cardinality({ i \in 1..Len(pgFetched) : C22_Kept(pgKind, pgFetched[i]) })
    /\ pgPc # "done" => pgResult = Nil

C22_Request ==
    (pgPc = "call" /\ pgPc' \in {"gotPage", "error"}) =>
        IF pgResp = Nil THEN pgRequested' = FirstPage(pgKind)
        ELSE pgResp.NextPage # 0 /\ pgRequested' = pgResp.NextPage

C22_LastPage == pgPc = "gotPage" /\ pgResp.NextPage = 0

C22_Pagination ==
    /\ []C22_State
    /\ [][C22_Request]_vars
    /\ (C22_LastPage ~> pgPc = "done")

\* C22 witness: the gitlab group listing has returned after asking for page 2;
\* of the two entries fetched one was outside the group
C22_Witness ==
    /\ pgKind = "gitlabGroup" /\ pgPc = "done" /\ pgRequested = 2
    /\ Len(pgFetched) = 2 /\ Len(pgResult) = 1

-----------------------------------------------------------------------------
\* C23: strict sequencing of the batch clone.  In cloneAllRepositories and
\* cloneGroupRepositories the clients are queried one at a time in list order;
\* no git status check, clone or pull happens before every client has been
\* queried; the repositories are processed one at a time in the order of the
\* clients' lists, all of an earlier client before any of a later one; and a
\* clone or pull directly follows the status check of its own repository.
C23_IsGit(e) == e.ev \in {"status", "clone", "pull"}

C23_State ==
    cmMode \in {"cloneAll", "cloneGroup"} =>
        /\ LET q == EventsOf("query")
           IN  \A i \in 1..Len(q) : q[i].client = i
        /\ \A j \in 1..Len(cmLog) :
             C23_IsGit(cmLog[j]) =>
                 Cardinality({ i \in 1..(j - 1) : cmLog[i].ev = "query" }) = Len(cmClients)
        /\ LET done == ReposOf(EventsOf("status"))
           IN  /\ Len(done) <= Len(ConcatOk(cmClients))
               /\ done = SubSeq(ConcatOk(cmClients), 1, Len(done))
        /\ \A j \in 1..Len(cmLog) :
             cmLog[j].ev \in {"clone", "pull"} =>
                 /\ j > 1
                 /\ cmLog[j - 1].ev = "status"
                 /\ cmLog[j - 1].repo = cmLog[j].repo

C23_OneAtATime ==
    (cmMode \in {"cloneAll", "cloneGroup"} /\ cmLog' # cmLog) =>
        /\ Len(cmLog') > Len(cmLog)
        /\ SubSeq(cmLog', 1, Len(cmLog)) = cmLog
        /\ Cardinality({ j \in (Len(cmLog) + 1)..Len(cmLog') : cmLog'[j].ev \in {"query", "status"} }) = 1

C23_StrictSequencing == []C23_State /\ [][C23_OneAtATime]_vars

\* C23 witness: a group clone over two providers that both answered has
\* checked all four repositories and run a git command
C23_Witness ==
    /\ cmMode = "cloneGroup" /\ cmPc = "done"
    /\ Len(cmClients) = 2
    /\ cmClients[1].Ok /\ cmClients[2].Ok
    /\ cmClients[1].Type # cmClients[2].Type
    /\ Len(EventsOf("status")) = 4
    /\ \E j \in 1..Len(cmLog) : cmLog[j].ev \in {"clone", "pull"}

\* the repository a processing step handles, its target path and the git
\* calls the step made
C24_Repo == IF cmMode = "cloneSingle" THEN cmFound ELSE cmAllRepos[cmRi + 1]

C24_Target == PathJoin(<<BaseDir, <<C24_Repo.Provider>>, C24_Repo.FullPath>>)

C24_Processing ==
    cmMode \in {"cloneAll", "cloneGroup", "cloneSingle"} /\ cmPc = "process" /\ cmLog' # cmLog

C24_Calls == SubSeq(cmLog', Len(cmLog) + 1, Len(cmLog'))

C24_Ran(ev) == { j \in 1..Len(C24_Calls) : C24_Calls[j].ev = ev }

C24_Success ==
    IF cmMode = "cloneSingle" THEN cmRet' = "nil"
    ELSE cmSuccessful' = cmSuccessful + 1 /\ cmFailed' = cmFailed

C24_Cloned == C24_Target \in fs /\ PathJoin(<<C24_Target, DotGit>>) \in fs

\* C24 as stated: at a target path that holds .git no clone is run, pull is
\* run exactly when --update is set, and without --update nothing changes and
\* the repository counts as successful; at a target path that does not exist
\* git clone is run exactly once with that path and pull is not run.
C24_StepAsStated ==
    C24_Processing =>
        /\ C24_Cloned =>
             /\ C24_Ran("clone") = {}
             /\ (C24_Ran("pull") # {}) <=> cmUpdate
             /\ ~cmUpdate => (fs' = fs /\ C24_Success)
        /\ C24_Target \notin fs =>
             /\ Cardinality(C24_Ran("clone")) = 1
             /\ \A j \in C24_Ran("clone") :
                  C24_Calls[j].path = C24_Target /\ C24_Calls[j].out # "mkdirFails"
             /\ C24_Ran("pull") = {}

C24_DecisionAsStated == [][C24_StepAsStated]_vars

\* C24: per-repository clone decision.  At a target path that holds .git,
\* CloneRepository is never called; when the status check returns without
\* error, pull is run exactly when --update is set, and without --update the
\* disk is unchanged and the repository counts as successful; when the status
\* check returns an error neither pull nor clone is run and the repository
\* does not count as successful.  At a target path that does not exist,
\* CloneRepository is called exactly once with that path and pull is not run.
C24_StatusOk == \E j \in C24_Ran("status") : C24_Calls[j].out # "err"

C24_Step ==
    C24_Processing =>
        /\ Cardinality(C24_Ran("status")) = 1
        /\ C24_Cloned =>
             /\ C24_Ran("clone") = {}
             /\ (C24_Ran("pull") # {}) <=> (cmUpdate /\ C24_StatusOk)
             /\ (~cmUpdate /\ C24_StatusOk) => (fs' = fs /\ C24_Success)
             /\ ~C24_StatusOk => (fs' = fs /\ ~C24_Success)
        /\ C24_Target \notin fs =>
             /\ Cardinality(C24_Ran("clone")) = 1
             /\ \A j \in C24_Ran("clone") : C24_Calls[j].path = C24_Target
             /\ C24_Ran("pull") = {}

C24_CloneDecision == [][C24_Step]_vars

\* C24 witness: with --update, one repository was pulled at a path that held
\* .git and another was cloned at a path that did not exist
C24_Witness ==
    /\ cmMode = "cloneAll" /\ cmPc = "done" /\ cmUpdate
    /\ \E i, j \in 1..Len(cmLog) :
         /\ cmLog[i].ev = "pull" /\ cmLog[j].ev = "clone"
         /\ cmLog[j].out = "ok"
         /\ cmLog[i].repo # cmLog[j].repo

\* C28: in no clone mode is CloneRepository called with a target path that
\* exists on disk without .git inside; such a repository is reported as a
\* failure.
C28_NotGit == C24_Target \in fs /\ PathJoin(<<C24_Target, DotGit>>) \notin fs

C28_Step ==
    (C24_Processing /\ C28_NotGit) =>
        /\ C24_Ran("clone") = {}
        /\ ~C24_Success

C28_NoCloneIntoDirectory == [][C28_Step]_vars

-----------------------------------------------------------------------------
\* runClone (cmd/clone.go 41-106): configuration and clients first, then the
\* choice of the clone function from --all and the positional arguments.

Call(mode, arg) == [mode |-> mode, arg |-> arg]

\* variant: --all with any argument is a group clone
Dispatch_GroupOnAnyArgs(cloneAll, args) ==
    IF cloneAll /\ Len(args) = 0 THEN <<Call("cloneAll", <<>>)>>
    ELSE IF cloneAll /\ Len(args) >= 1 THEN <<Call("cloneGroup", args[1])>>
    ELSE IF Len(args) = 0 THEN <<Call("cloneAll", <<>>)>>
    ELSE <<Call("cloneSingle", args[1])>>

\* lines 81-105: the four `if` blocks, each ending in a return
Dispatch(cloneAll, args) ==
    IF cloneAll /\ Len(args) = 0 THEN <<Call("cloneAll", <<>>)>>
    ELSE IF cloneAll /\ Len(args) = 1 THEN <<Call("cloneGroup", args[1])>>
    ELSE IF Len(args) = 0 THEN <<Call("cloneAll", <<>>)>>
    ELSE <<Call("cloneSingle", args[1])>>

\* words on the command line: repository paths and group paths
ArgWords == {<<"a">>, <<"b">>, <<"a", Slash, "b">>, <<"b", Slash, "a">>}

DsInit ==
    /\ dsAll \in BOOLEAN
    /\ dsArgs \in StringsOver(ArgWords, 0, MaxArgs)
    /\ dsPc = "start"
    /\ dsCalls = <<>>
    /\ dsErr = "nil"
    /\ TreeIdle
    /\ LtIdle
    /\ GlIdle
    /\ FsIdle
    /\ PrIdle
    /\ CmIdle
    /\ FdIdle
    /\ TwIdle
    /\ CfIdle
    /\ PgIdle

\* config.Load, the providers check and createClient for every provider
\* (lines 45-64): any of them may end the command with its error
DsSetup ==
    /\ dsPc = "start"
    /\ \E outcome \in {"ok", "errLoadConfig", "errNoProviders", "errCreateClient"} :
         /\ dsErr' = IF outcome = "ok" THEN "nil" ELSE outcome
         /\ dsPc' = IF outcome = "ok" THEN "ready" ELSE "returned"
    /\ UNCHANGED <<dsAll, dsArgs, dsCalls, nonDsVars>>

\* lines 66-105: read the flags, call one clone function, return its result
DsDispatch ==
    /\ dsPc = "ready"
    /\ dsCalls' = dsCalls \o Dispatch(dsAll, dsArgs)
    /\ dsPc' = "returned"
    /\ UNCHANGED <<dsAll, dsArgs, dsErr, nonDsVars>>

DsNext == DsSetup \/ DsDispatch

SpecDispatch == DsInit /\ [][DsNext]_vars

\* C25: clone command dispatch.  Once the configuration is loaded and the
\* clients exist, runClone calls exactly one clone function: with --all and no
\* argument, or without --all and without argument, cloneAllRepositories; with
\* --all and exactly one argument cloneGroupRepositories for that argument; in
\* every other case cloneSingleRepository for the first argument, the other
\* arguments being ignored.  No clone function is called before.
C25_Dispatch ==
    /\ (dsPc = "returned" /\ dsErr = "nil") =>
         /\ Len(dsCalls) = 1
         /\ dsCalls[1].mode \in {"cloneAll", "cloneGroup", "cloneSingle"}
         /\ (Len(dsArgs) = 0) => dsCalls[1] = Call("cloneAll", <<>>)
         /\ (dsAll /\ Len(dsArgs) = 1) => dsCalls[1] = Call("cloneGroup", dsArgs[1])
         /\ (Len(dsArgs) >= 1 /\ ~(dsAll /\ Len(dsArgs) = 1)) =>
               dsCalls[1] = Call("cloneSingle", dsArgs[1])
    /\ (dsPc # "returned" \/ dsErr # "nil") => dsCalls = <<>>

\* C25 witness: --all with two arguments has cloned the single repository
\* named by the first
C25_Witness ==
    /\ dsPc = "returned" /\ dsAll /\ Len(dsArgs) = 2
    /\ dsArgs[1] # dsArgs[2]
    /\ dsCalls = <<Call("cloneSingle", dsArgs[1])>>

-----------------------------------------------------------------------------
\* The list command (unnamed/part_004): runList chooses the group filter and
\* the display; displayRepositoryList queries the clients; and
\* displayRepositoryTree builds and shows one tree per client.

\* a configured provider: the Group of its ProviderConfig and the client
\* createClient made for it
Provider(group, client) == [Group |-> group, client |-> client]

FilterWords == {<<>>, <<"a">>, <<"b">>}

ProviderLists2 ==
    UNION { [1..n -> { Provider(g, c) : g \in FilterWords, c \in Clients }] : n \in 1..MaxListed }

\* variant: the last provider that configures a group decides
TargetGroup_LastProvider(flag, providers) ==
    LET set == { i \in 1..Len(providers) : providers[i].Group # <<>> }
    IN  IF flag # <<>> THEN flag
        ELSE IF set = {} THEN <<>>
        ELSE providers[CHOOSE i \in set : \A j \in set : j <= i].Group

\* runList lines 66-75: the flag, else the first non-empty provider Group
TargetGroup(flag, providers) ==
    LET set == { i \in 1..Len(providers) : providers[i].Group # <<>> }
    IN  IF flag # <<>> THEN flag
        ELSE IF set = {} THEN <<>>
        ELSE providers[CHOOSE i \in set : \A j \in set : i <= j].Group

RECURSIVE buildTreeFromRepos(_, _)
\* github buildTreeFromRepos: the loop over repos
buildTreeFromRepos(t, list) ==
    IF list = <<>> THEN t
    ELSE buildTreeFromRepos(GitHubAddRepo(t, Head(list)), Tail(list))

\* client.BuildRepositoryTree(): the listing failed (Nil), or the tree of
\* the provider's builder
ClientTree(client) ==
    IF ~client.Ok THEN Nil
    ELSE IF client.Type = "gitlab" THEN BuildRepositoryTree(client.Repos)
    ELSE buildTreeFromRepos(EmptyTree, client.Repos)

\* one entry of the command's output: a query sent to client i or a line
\* printed for it
Out(ev, i, provider, arg) == [ev |-> ev, client |-> i, provider |-> provider, arg |-> arg]

\* variant: a failing client ends the tree display
TreeClient_AbortOnError(i, client, filter) ==
    LET t     == ClientTree(client)
        built == Out("buildTree", i, client.Type, <<>>)
    IN  IF t = Nil
        THEN [out |-> <<built, Out("error", i, client.Type, <<>>)>>, continue |-> FALSE]
        ELSE IF filter = <<>>
        THEN [out |-> <<built, Out("all", i, client.Type, <<>>)>>, continue |-> TRUE]
        ELSE IF findGroupInTree(t, filter) # Nil
        THEN [out |-> <<built, Out("group", i, client.Type,
                                   findGroupInTree(t, filter).Group.FullPath)>>,
              continue |-> TRUE]
        ELSE [out |-> <<built, Out("notFound", i, client.Type, filter)>>,
              continue |-> TRUE]

\* the body of the loop of displayRepositoryTree for client i (lines 144-186,
\* displayFilteredTree 191-198): what it asks and prints, and whether the loop
\* goes on
TreeClient(i, client, filter) ==
    LET t     == ClientTree(client)
        built == Out("buildTree", i, client.Type, <<>>)
    IN  IF t = Nil
        THEN [out |-> <<built, Out("error", i, client.Type, <<>>)>>, continue |-> TRUE]
        ELSE IF filter = <<>>
        THEN [out |-> <<built, Out("all", i, client.Type, <<>>)>>, continue |-> TRUE]
        ELSE IF findGroupInTree(t, filter) # Nil
        THEN [out |-> <<built, Out("group", i, client.Type,
                                   findGroupInTree(t, filter).Group.FullPath)>>,
              continue |-> TRUE]
        ELSE [out |-> <<built, Out("notFound", i, client.Type, filter)>>,
              continue |-> TRUE]

\* the query displayRepositoryList sends to client i (lines 94-100)
ListQuery(i, client, filter) ==
    IF filter # <<>> THEN Out("ListRepositoriesInGroup", i, client.Type, filter)
    ELSE Out("ListAllRepositories", i, client.Type, <<>>)

LtInit ==
    /\ ltFlag \in FilterWords
    /\ ltShowTree \in BOOLEAN
    /\ ltProviders \in ProviderLists2
    /\ ltPc = "start"
    /\ ltTarget = <<>>
    /\ ltCi = 1
    /\ ltOut = <<>>
    /\ ltRet = "running"
    /\ TreeIdle
    /\ GlIdle
    /\ FsIdle
    /\ PrIdle
    /\ CmIdle
    /\ FdIdle
    /\ TwIdle
    /\ CfIdle
    /\ PgIdle
    /\ DsIdle

\* runList up to the call of the display function: createClient may fail
LtRunList ==
    /\ ltPc = "start"
    /\ \E clientsOk \in BOOLEAN :
         IF clientsOk
         THEN /\ ltTarget' = TargetGroup(ltFlag, ltProviders)
              /\ ltPc' = IF ltShowTree THEN "tree" ELSE "list"
              /\ UNCHANGED ltRet
         ELSE /\ ltPc' = "returned"
              /\ ltRet' = "errCreateClient"
              /\ UNCHANGED ltTarget
    /\ UNCHANGED <<ltFlag, ltShowTree, ltProviders, ltCi, ltOut, nonLtVars>>

\* one iteration of the query loop of displayRepositoryList; after the last
\* client the repositories are printed and nil is returned
LtListClient ==
    /\ ltPc = "list"
    /\ LET client == ltProviders[ltCi].client
           last   == ltCi = Len(ltProviders)
       IN  /\ ltOut' = Append(ltOut, ListQuery(ltCi, client, ltTarget))
           /\ ltCi' = ltCi + 1
           /\ ltPc' = IF ~client.Ok \/ last THEN "returned" ELSE "list"
           /\ ltRet' = IF ~client.Ok THEN "errProvider"
                       ELSE IF last THEN "nil" ELSE ltRet
    /\ UNCHANGED <<ltFlag, ltShowTree, ltProviders, ltTarget, nonLtVars>>

\* one iteration of the loop of displayRepositoryTree
LtTreeClient ==
    /\ ltPc = "tree"
    /\ LET step == TreeClient(ltCi, ltProviders[ltCi].client, ltTarget)
           last == ltCi = Len(ltProviders)
       IN  /\ ltOut' = ltOut \o step.out
           /\ ltCi' = ltCi + 1
           /\ ltPc' = IF ~step.continue \/ last THEN "returned" ELSE "tree"
           /\ ltRet' = IF ~step.continue \/ last THEN "nil" ELSE ltRet
    /\ UNCHANGED <<ltFlag, ltShowTree, ltProviders, ltTarget, nonLtVars>>

LtNext == LtRunList \/ LtListClient \/ LtTreeClient

SpecListCommand == LtInit /\ [][LtNext]_vars

\* C26: group filter selection in the list command.  The filter is the
\* --group value when that is non-empty, otherwise the Group of the first
\* provider in configuration order whose Group is non-empty, otherwise none;
\* and every provider that is asked is asked with that filter: in the list
\* display ListRepositoriesInGroup(filter), or ListAllRepositories when there
\* is no filter, and in the tree display the lookup of that group, whatever
\* the provider's own Group is.
C26_Started == ltPc \in {"list", "tree"} \/ (ltPc = "returned" /\ ltRet # "errCreateClient")

C26_Selected ==
    /\ ltFlag # <<>> => ltTarget = ltFlag
    /\ (ltFlag = <<>> /\ \A i \in 1..Len(ltProviders) : ltProviders[i].Group = <<>>)
          => ltTarget = <<>>
    /\ \A i \in 1..Len(ltProviders) :
         (/\ ltFlag = <<>>
          /\ ltProviders[i].Group # <<>>
          /\ \A j \in 1..(i - 1) : ltProviders[j].Group = <<>>)
            => ltTarget = ltProviders[i].Group

C26_Applied ==
    \A n \in 1..Len(ltOut) :
        /\ ltOut[n].ev = "ListAllRepositories" => ltTarget = <<>>
        /\ ltOut[n].ev = "ListRepositoriesInGroup" => (ltTarget # <<>> /\ ltOut[n].arg = ltTarget)
        /\ ltOut[n].ev = "all" => ltTarget = <<>>
        /\ ltOut[n].ev \in {"group", "notFound"} => (ltTarget # <<>> /\ ltOut[n].arg = ltTarget)

C26_Asked ==
    LET asked == SelectSeq(ltOut, LAMBDA e : e.ev \in {"ListAllRepositories",
                                                      "ListRepositoriesInGroup", "buildTree"})
    IN  /\ Len(asked) = ltCi - 1
        /\ \A i \in 1..Len(asked) : asked[i].client = i

C26_FilterSelection ==
    IF C26_Started THEN C26_Selected /\ C26_Applied /\ C26_Asked
    ELSE ltOut = <<>>

\* C26 witness: no --group flag, the first provider without Group and the
\* second with Group b: both providers were asked for group b
C26_Witness ==
    /\ ltPc = "returned" /\ ltRet = "nil" /\ ~ltShowTree
    /\ ltFlag = <<>> /\ Len(ltProviders) = 2
    /\ ltProviders[1].Group = <<>> /\ ltProviders[2].Group = <<"b">>
    /\ Len(ltOut) = 2
    /\ \A n \in 1..2 : ltOut[n].ev = "ListRepositoriesInGroup" /\ ltOut[n].arg = <<"b">>

\* C27: the tree display isolates providers.  displayRepositoryTree handles
\* the clients one at a time in list order; for a client whose
\* BuildRepositoryTree fails it prints an error naming that provider type and
\* goes on; when a filter is set and the group is not in a provider's tree it
\* prints the not-found message with the group and the provider type and goes
\* on; it handles every client and returns nil.
C27_HasGroup(client, g) ==
    \E n \in 1..Len(client.Repos) : HasPrefix(client.Repos[n].FullPath, g \o <<Slash>>)

C27_LineOf(i) ==
    LET c == ltProviders[i].client
    IN  IF ~c.Ok THEN Out("error", i, c.Type, <<>>)
        ELSE IF ltTarget = <<>> THEN Out("all", i, c.Type, <<>>)
        ELSE IF C27_HasGroup(c, ltTarget) THEN Out("group", i, c.Type, ltTarget)
        ELSE Out("notFound", i, c.Type, ltTarget)

C27_State ==
    (ltShowTree /\ C26_Started) =>
        /\ Len(ltOut) = 2 * (ltCi - 1)
        /\ \A i \in 1..(ltCi - 1) :
             /\ ltOut[2 * i - 1] = Out("buildTree", i, ltProviders[i].client.Type, <<>>)
             /\ ltOut[2 * i] = C27_LineOf(i)
        /\ ltPc = "returned" => (ltRet = "nil" /\ ltCi = Len(ltProviders) + 1)
        /\ ltPc # "returned" => ltRet = "running"

C27_OneAtATime ==
    (ltShowTree /\ ltPc = "tree") => (ltCi' = ltCi + 1 /\ Len(ltOut') = Len(ltOut) + 2)

C27_TreeIsolation == []C27_State /\ [][C27_OneAtATime]_vars

\* C27 witness: the first client failed and the group was not in the second
\* client's tree; both lines were printed and nil returned
C27_Witness ==
    /\ ltShowTree /\ ltPc = "returned" /\ ltRet = "nil"
    /\ Len(ltProviders) = 2
    /\ Len(ltOut) = 4
    /\ ltOut[2].ev = "error" /\ ltOut[2].provider = ltProviders[1].client.Type
    /\ ltOut[4].ev = "notFound" /\ ltOut[4].arg = ltTarget
    /\ ltProviders[2].client.Repos # <<>>

-----------------------------------------------------------------------------
\* C29: local paths do not collide across repositories.  On any filesystem
\* state, ResolveRepositoryPath returns different paths for two repositories
\* that differ in provider tag or in FullPath; in particular the legacy
\* location it returns for one repository is never the provider-namespaced
\* location of another.
C29_NoCollision ==
    prCall = "resolve" =>
        \A other \in LocalRepos \ {prRepo} :
            /\ ResolveRepositoryPath(fs, other) # prResult
            /\ GetClonePath(other) # prResult

====
